---- MODULE Spec2Model ----
(***************************************************************************)
(* Onboarding wizard of the gateway: the gateway settings resolver         *)
(* (configureGatewayForOnboarding), the wizard run (runOnboardingWizard)   *)
(* and the channel reconciliation loop (setupChannels).                    *)
(*                                                                         *)
(* Three specifications share the variables of this module:                *)
(*   GatewaySpec  - one call of configureGatewayForOnboarding              *)
(*   Spec         - one run of runOnboardingWizard                         *)
(*   ChannelsSpec - one call of setupChannels                              *)
(* Each specification keeps the variables of the other two at rest.        *)
(***************************************************************************)
EXTENDS Integers, Sequences, FiniteSets, TLC

(***************************************************************************)
(* Text values.  A text is a sequence of characters; " " is the only       *)
(* whitespace character that occurs.  An absent (undefined) text is the    *)
(* one-element sequence UndefinedText, which is not a text.                *)
(***************************************************************************)
UndefinedText == <<"undefined">>

\* String.prototype.trim, front part
RECURSIVE TrimStart(_)
TrimStart(s) ==
  IF s = <<>> THEN <<>>
  ELSE IF Head(s) = " " THEN TrimStart(Tail(s)) ELSE s

\* String.prototype.trim, back part
RECURSIVE TrimEnd(_)
TrimEnd(s) ==
  IF s = <<>> THEN <<>>
  ELSE IF s[Len(s)] = " " THEN TrimEnd(SubSeq(s, 1, Len(s) - 1)) ELSE s

\* String.prototype.trim
Trim(s) == TrimEnd(TrimStart(s))

\* JavaScript truthiness of an optional text: undefined and "" are falsy
Truthy(t) == t # UndefinedText /\ t # <<>>

\* a ?? b on optional texts
Coalesce(a, b) == IF a = UndefinedText THEN b ELSE a

\* a present, non-empty text
NonEmptyText(t) == t # UndefinedText /\ Len(t) > 0

(***************************************************************************)
(* Variables                                                               *)
(***************************************************************************)
VARIABLES
  flow,          \* WizardFlow in effect
  baseGateway,   \* baseConfig.gateway, the stored gateway section
  nextGateway,   \* nextConfig.gateway, the gateway section being built
  gw,            \* locals of configureGatewayForOnboarding and its position
  gwNotes,       \* notes shown by configureGatewayForOnboarding, in order
  gwPrompts,     \* prompts issued by configureGatewayForOnboarding, in order
  gwSettings,    \* the settings returned, NoSettings before the return
  opts,          \* OnboardOptions of the run
  snapshot,      \* readConfigFileSnapshot(): exists, valid
  persisted,     \* the persisted configuration document
  wz,            \* locals of runOnboardingWizard and its position
  wzLog,         \* prompts, notes, errors and writes of the run, in order
  wzWrites,      \* the documents passed to writeConfigFile, in order
  chOpts,        \* SetupChannelsOptions of the call
  chInput,       \* cfg, the configuration setupChannels was called with
  chNext,        \* next, the configuration being changed
  brokenPlugins, \* the channel plugins that cannot be loaded on this host
  loaded,        \* the channel plugins in the plugin registry
  statusByChannel, \* channel -> "configured", "unconfigured" or "none"
  selection,     \* the channels configured in this call, in order
  ch,            \* locals of setupChannels and its position
  chResult,      \* the configuration returned, NoResult before the return
  wt,            \* locals of waitForGatewayReachable, its clock and its position
  hk,            \* setupInternalHooks: cfg, the hooks found, locals and position
  lw,            \* applyOnboardingLocalWorkspaceConfig: arguments and results
  lg,            \* lang-core: its configuration and the commands given so far
  rm,            \* the remote branch of runOnboardingWizard: locals and position
  cu,            \* promptCustomApiConfig: locals, requests sent and position
  ap,            \* applyCustomApiConfig: arguments and results
  pg             \* the progress indicators of the wizard and the step running

gwVars == <<baseGateway, nextGateway, gw, gwNotes, gwPrompts, gwSettings>>
wzVars == <<opts, snapshot, persisted, wz, wzLog, wzWrites>>
chVars == <<chOpts, chInput, chNext, brokenPlugins, loaded, statusByChannel, selection, ch, chResult>>
fnVars == <<wt, hk, lw, lg>>
exVars == <<rm, cu, ap, pg>>

(***************************************************************************)
(* Gateway settings: values                                                *)
(***************************************************************************)
Flows == {"quickstart", "advanced"}
Binds == {"loopback", "lan", "tailnet", "auto", "custom"}
AuthModes == {"token", "password"}
TailscaleModes == {"off", "serve", "funnel"}

DEFAULT_GATEWAY_PORT == 18789
UndefinedPort == -2
NaN == -1

\* the token randomToken() returns: some non-empty text
RandomTokenValue == <<"r">>
randomToken == RandomTokenValue

\* texts a stored token or password can hold
StoredSecrets == {UndefinedText, <<>>, <<" ">>, <<"x">>}
\* texts a stored customBindHost can hold
StoredHosts == {UndefinedText, <<>>, <<"h">>}
\* texts the operator can type at the token prompt
TokenInputs == {<<>>, <<" ">>, <<"x", " ">>}
\* texts the operator can type at the password prompt
PasswordInputs == {<<>>, <<" ">>, <<" ", "y">>}
\* texts the operator can type at the custom IP prompt (h, i: IPv4 addresses)
HostInputs == {<<>>, <<"i", " ">>}
\* texts the operator can type at the port prompt
PortInputs == {"8080", "", "abc", "70000", "80.5"}

\* Number.isFinite(Number(value)) on the port texts: Number("") is 0,
\* Number("abc") is NaN
NumberIsFinite(t) == t \in {"8080", "", "70000", "80.5"}

\* Number.parseInt(String(value), 10) on the port texts: parseInt("") is NaN,
\* parseInt("80.5") stops at the point
ParseInt(t) ==
  CASE t = "8080" -> 8080
    [] t = "70000" -> 70000
    [] t = "80.5" -> 80
    [] OTHER -> NaN

\* validateGatewayPasswordInput: a password must be non-empty after trimming
validateGatewayPasswordInput(t) == Trim(t) # <<>>

\* validateIPv4AddressInput: h and i stand for well-formed IPv4 addresses
validateIPv4AddressInput(t) == Trim(t) \in {<<"h">>, <<"i">>}

\* normalizeGatewayTokenInput: the trimmed text
normalizeGatewayTokenInput(t) == IF t = UndefinedText THEN <<>> ELSE Trim(t)

\* a || b on texts
OrElse(a, b) == IF Truthy(a) THEN a ELSE b

\* the stored gateway sections a run can start from
BaseGateways ==
  [ port : {UndefinedPort, 8080},
    bind : {"undefined", "loopback", "lan", "custom"},
    customBindHost : StoredHosts,
    authMode : {"undefined"} \cup AuthModes,
    token : StoredSecrets,
    password : StoredSecrets,
    tsMode : {"undefined", "serve", "funnel"},
    tsReset : {"undefined", "true"},
    denyCommands : {"undefined"} ]

\* the stored gateway sections an advanced run starts from: advanced flow asks
\* for every setting, so only the keys it can leave behind are varied
AdvancedBaseGateways ==
  { g \in BaseGateways :
      /\ g.port = UndefinedPort
      /\ g.bind \in {"undefined", "custom"}
      /\ g.customBindHost \in {UndefinedText, <<"h">>}
      /\ g.authMode = "undefined"
      /\ g.token \in {UndefinedText, <<"x">>}
      /\ g.password \in {UndefinedText, <<"x">>}
      /\ g.tsMode = "undefined"
      /\ g.tsReset = "undefined" }

\* baseConfig = {} : no stored gateway section
EmptyGateway ==
  [ port |-> UndefinedPort, bind |-> "undefined", customBindHost |-> UndefinedText,
    authMode |-> "undefined", token |-> UndefinedText, password |-> UndefinedText,
    tsMode |-> "undefined", tsReset |-> "undefined", denyCommands |-> "undefined" ]

\* resolveGatewayPort: the stored port, else the default port
resolveGatewayPort(g) == IF g.port # UndefinedPort THEN g.port ELSE DEFAULT_GATEWAY_PORT

BoolText(b) == IF b THEN "true" ELSE "false"

\* quickstartGateway of runOnboardingWizard
QuickstartGatewayDefaults(g) ==
  [ hasExisting |->
      \/ g.port # UndefinedPort
      \/ g.bind # "undefined"
      \/ g.authMode # "undefined"
      \/ g.token # UndefinedText
      \/ g.password # UndefinedText
      \/ g.customBindHost # UndefinedText
      \/ g.tsMode # "undefined",
    port |-> resolveGatewayPort(g),
    bind |-> IF g.bind \in Binds THEN g.bind ELSE "loopback",
    authMode |->
      IF g.authMode \in AuthModes THEN g.authMode
      ELSE IF Truthy(g.token) THEN "token"
      ELSE IF Truthy(g.password) THEN "password"
      ELSE "token",
    tailscaleMode |-> IF g.tsMode \in TailscaleModes THEN g.tsMode ELSE "off",
    token |-> g.token,
    password |-> g.password,
    customBindHost |-> g.customBindHost,
    tailscaleResetOnExit |-> (g.tsReset = "true") ]

quickstartGateway == QuickstartGatewayDefaults(baseGateway)

NoSettings == [ returned |-> FALSE ]

GwInitLocals ==
  [ pc |-> "port", port |-> UndefinedPort, bind |-> "undefined",
    customBindHost |-> UndefinedText, authMode |-> "undefined",
    tailscaleMode |-> "undefined", tailscaleResetOnExit |-> FALSE,
    gatewayToken |-> UndefinedText,
    collectedBind |-> "undefined", collectedAuthMode |-> "undefined" ]

(***************************************************************************)
(* configureGatewayForOnboarding, step by step                             *)
(***************************************************************************)
GwAt(p) == gw.pc = p

GwAsk(name) == gwPrompts' = Append(gwPrompts, name)

GwFrame == UNCHANGED <<flow, baseGateway, wzVars, chVars, fnVars, exVars>>

\* port: quickstartGateway.port, or the parsed answer of the port prompt
GwPort ==
  /\ GwAt("port")
  /\ IF flow = "quickstart"
       THEN /\ gw' = [gw EXCEPT !.pc = "bind", !.port = quickstartGateway.port]
            /\ UNCHANGED gwPrompts
       ELSE /\ \E t \in {i \in PortInputs : NumberIsFinite(i)} :
                 gw' = [gw EXCEPT !.pc = "bind", !.port = ParseInt(t)]
            /\ GwAsk("port")
  /\ UNCHANGED <<nextGateway, gwNotes, gwSettings>>
  /\ GwFrame

\* bind: quickstartGateway.bind, or the answer of the bind prompt
GwBind ==
  /\ GwAt("bind")
  /\ IF flow = "quickstart"
       THEN /\ gw' = [gw EXCEPT !.pc = "customHost", !.bind = quickstartGateway.bind,
                                !.collectedBind = quickstartGateway.bind]
            /\ UNCHANGED gwPrompts
       ELSE /\ \E b \in Binds :
                 gw' = [gw EXCEPT !.pc = "customHost", !.bind = b, !.collectedBind = b]
            /\ GwAsk("bind")
  /\ UNCHANGED <<nextGateway, gwNotes, gwSettings>>
  /\ GwFrame

\* customBindHost: the stored host, replaced by the trimmed answer of the
\* IPv4 prompt when bind is custom and the flow is advanced or no host is stored
GwCustomHost ==
  /\ GwAt("customHost")
  /\ LET stored == quickstartGateway.customBindHost
         needsPrompt == flow # "quickstart" \/ ~Truthy(stored)
     IN IF gw.bind = "custom" /\ needsPrompt
          THEN /\ \E t \in {i \in HostInputs : validateIPv4AddressInput(i)} :
                    gw' = [gw EXCEPT !.pc = "auth", !.customBindHost = Trim(t)]
               /\ GwAsk("customHost")
          ELSE /\ gw' = [gw EXCEPT !.pc = "auth", !.customBindHost = stored]
               /\ UNCHANGED gwPrompts
  /\ UNCHANGED <<nextGateway, gwNotes, gwSettings>>
  /\ GwFrame

\* authMode: quickstartGateway.authMode, or the answer of the auth prompt
GwAuth ==
  /\ GwAt("auth")
  /\ IF flow = "quickstart"
       THEN /\ gw' = [gw EXCEPT !.pc = "tailscale", !.authMode = quickstartGateway.authMode,
                                !.collectedAuthMode = quickstartGateway.authMode]
            /\ UNCHANGED gwPrompts
       ELSE /\ \E a \in AuthModes :
                 gw' = [gw EXCEPT !.pc = "tailscale", !.authMode = a, !.collectedAuthMode = a]
            /\ GwAsk("auth")
  /\ UNCHANGED <<nextGateway, gwNotes, gwSettings>>
  /\ GwFrame

\* tailscaleMode: quickstartGateway.tailscaleMode, or the answer of the
\* exposure prompt
GwTailscale ==
  /\ GwAt("tailscale")
  /\ IF flow = "quickstart"
       THEN /\ gw' = [gw EXCEPT !.pc = "tailscaleBin",
                                !.tailscaleMode = quickstartGateway.tailscaleMode]
            /\ UNCHANGED gwPrompts
       ELSE /\ \E m \in TailscaleModes :
                 gw' = [gw EXCEPT !.pc = "tailscaleBin", !.tailscaleMode = m]
            /\ GwAsk("tailscale")
  /\ UNCHANGED <<nextGateway, gwNotes, gwSettings>>
  /\ GwFrame

\* the warning shown when tailscale is wanted and its binary is not found
GwTailscaleBin ==
  /\ GwAt("tailscaleBin")
  /\ \E found \in BOOLEAN :
       gwNotes' = IF gw.tailscaleMode # "off" /\ ~found
                    THEN Append(gwNotes, "tailscale-missing-binary")
                    ELSE gwNotes
  /\ gw' = [gw EXCEPT !.pc = "resetOnExit"]
  /\ UNCHANGED <<nextGateway, gwPrompts, gwSettings>>
  /\ GwFrame

\* tailscaleResetOnExit: the stored value in quickstart, else false, else the
\* answer of the confirmation asked when tailscale is on
GwResetOnExit ==
  /\ GwAt("resetOnExit")
  /\ IF gw.tailscaleMode # "off" /\ flow # "quickstart"
       THEN /\ \E answer \in BOOLEAN :
                 gw' = [gw EXCEPT !.pc = "fixBind", !.tailscaleResetOnExit = answer]
            /\ gwNotes' = Append(gwNotes, "tailscale-docs")
            /\ GwAsk("resetOnExit")
       ELSE /\ gw' = [gw EXCEPT !.pc = "fixBind",
                        !.tailscaleResetOnExit =
                           IF flow = "quickstart"
                             THEN quickstartGateway.tailscaleResetOnExit ELSE FALSE]
            /\ UNCHANGED <<gwNotes, gwPrompts>>
  /\ UNCHANGED <<nextGateway, gwSettings>>
  /\ GwFrame

\* FixedBind without the tailscale constraint
FixedBind_Unconstrained(tailscaleMode, bind) == bind

\* the bind kept by the tailscale constraint
FixedBind(tailscaleMode, bind) ==
  IF tailscaleMode # "off" /\ bind # "loopback" THEN "loopback" ELSE bind

\* GwFixBind without its notice
GwFixBind_Silent ==
  /\ GwAt("fixBind")
  /\ gw' = [gw EXCEPT !.pc = "fixAuth",
                      !.bind = FixedBind(gw.tailscaleMode, gw.bind),
                      !.customBindHost =
                         IF FixedBind(gw.tailscaleMode, gw.bind) # gw.bind
                           THEN UndefinedText ELSE @]
  /\ UNCHANGED <<nextGateway, gwNotes, gwPrompts, gwSettings>>
  /\ GwFrame

\* constraint: tailscale wants bind = loopback
GwFixBind ==
  /\ GwAt("fixBind")
  /\ LET fixed == FixedBind(gw.tailscaleMode, gw.bind)
     IN IF fixed # gw.bind
          THEN /\ gwNotes' = Append(gwNotes, "tailscale-requires-loopback")
               /\ gw' = [gw EXCEPT !.pc = "fixAuth", !.bind = fixed,
                                   !.customBindHost = UndefinedText]
          ELSE /\ gw' = [gw EXCEPT !.pc = "fixAuth"]
               /\ UNCHANGED gwNotes
  /\ UNCHANGED <<nextGateway, gwPrompts, gwSettings>>
  /\ GwFrame

\* FixedAuthMode without the funnel constraint
FixedAuthMode_Unconstrained(tailscaleMode, authMode) == authMode

\* the auth mode kept by the funnel constraint
FixedAuthMode(tailscaleMode, authMode) ==
  IF tailscaleMode = "funnel" /\ authMode # "password" THEN "password" ELSE authMode

\* GwFixAuth showing its notice in advanced flow only
GwFixAuth_QuickstartSilent ==
  /\ GwAt("fixAuth")
  /\ LET fixed == FixedAuthMode(gw.tailscaleMode, gw.authMode)
     IN IF fixed # gw.authMode
          THEN /\ gwNotes' = IF flow = "advanced"
                               THEN Append(gwNotes, "funnel-requires-password")
                               ELSE gwNotes
               /\ gw' = [gw EXCEPT !.pc = "token", !.authMode = fixed]
          ELSE /\ gw' = [gw EXCEPT !.pc = "token"]
               /\ UNCHANGED gwNotes
  /\ UNCHANGED <<nextGateway, gwPrompts, gwSettings>>
  /\ GwFrame

\* constraint: funnel requires password auth
GwFixAuth ==
  /\ GwAt("fixAuth")
  /\ LET fixed == FixedAuthMode(gw.tailscaleMode, gw.authMode)
     IN IF fixed # gw.authMode
          THEN /\ gwNotes' = Append(gwNotes, "funnel-requires-password")
               /\ gw' = [gw EXCEPT !.pc = "token", !.authMode = fixed]
          ELSE /\ gw' = [gw EXCEPT !.pc = "token"]
               /\ UNCHANGED gwNotes
  /\ UNCHANGED <<nextGateway, gwPrompts, gwSettings>>
  /\ GwFrame

\* the token of quickstart flow: quickstartGateway.token ?? randomToken()
QuickstartToken_Stored(stored) == stored
QuickstartToken(stored) == Coalesce(stored, randomToken)

\* the token of advanced flow: normalizeGatewayTokenInput(input) || randomToken()
AdvancedToken(input) == OrElse(normalizeGatewayTokenInput(input), randomToken)

\* gatewayToken, resolved only for token auth
GwToken ==
  /\ GwAt("token")
  /\ IF gw.authMode = "token"
       THEN IF flow = "quickstart"
              THEN /\ gw' = [gw EXCEPT !.pc = "authConfig",
                                       !.gatewayToken = QuickstartToken(quickstartGateway.token)]
                   /\ UNCHANGED gwPrompts
              ELSE /\ \E t \in TokenInputs :
                        gw' = [gw EXCEPT !.pc = "authConfig", !.gatewayToken = AdvancedToken(t)]
                   /\ GwAsk("token")
       ELSE /\ gw' = [gw EXCEPT !.pc = "authConfig"]
            /\ UNCHANGED gwPrompts
  /\ UNCHANGED <<nextGateway, gwNotes, gwSettings>>
  /\ GwFrame

\* the password written to the document: String(password ?? "").trim()
WrittenPassword(password) == Trim(Coalesce(password, <<>>))

\* whether quickstart flow reuses the stored password instead of asking
ReusesStoredPassword(f, stored) == f = "quickstart" /\ Truthy(stored)

\* password auth: the stored password in quickstart, else the validated answer
\* of the password prompt, written to gateway.auth
GwPasswordAuth ==
  /\ GwAt("authConfig")
  /\ gw.authMode = "password"
  /\ IF ReusesStoredPassword(flow, quickstartGateway.password)
       THEN /\ nextGateway' = [nextGateway EXCEPT
                                 !.authMode = "password",
                                 !.password = WrittenPassword(quickstartGateway.password)]
            /\ UNCHANGED gwPrompts
       ELSE /\ \E t \in {i \in PasswordInputs : validateGatewayPasswordInput(i)} :
                 nextGateway' = [nextGateway EXCEPT
                                   !.authMode = "password",
                                   !.password = WrittenPassword(t)]
            /\ GwAsk("password")
  /\ gw' = [gw EXCEPT !.pc = "build"]
  /\ UNCHANGED <<gwNotes, gwSettings>>
  /\ GwFrame

\* token auth: gatewayToken written to gateway.auth
GwTokenAuth ==
  /\ GwAt("authConfig")
  /\ gw.authMode = "token"
  /\ nextGateway' = [nextGateway EXCEPT !.authMode = "token", !.token = gw.gatewayToken]
  /\ gw' = [gw EXCEPT !.pc = "build"]
  /\ UNCHANGED <<gwNotes, gwPrompts, gwSettings>>
  /\ GwFrame

\* the customBindHost key of the written gateway section: set only for a
\* custom bind with a host, otherwise whatever the section held before
WrittenCustomBindHost(bind, customBindHost, previous) ==
  IF bind = "custom" /\ Truthy(customBindHost) THEN customBindHost ELSE previous

\* port, bind, customBindHost and tailscale written to the gateway section
GwBuild ==
  /\ GwAt("build")
  /\ nextGateway' = [nextGateway EXCEPT
       !.port = gw.port,
       !.bind = gw.bind,
       !.customBindHost =
          WrittenCustomBindHost(gw.bind, gw.customBindHost, nextGateway.customBindHost),
       !.tsMode = gw.tailscaleMode,
       !.tsReset = BoolText(gw.tailscaleResetOnExit)]
  /\ gw' = [gw EXCEPT !.pc = "denyCommands"]
  /\ UNCHANGED <<gwNotes, gwPrompts, gwSettings>>
  /\ GwFrame

\* a new gateway setup starts with the denylist of high-risk node commands
GwDenyCommands ==
  /\ GwAt("denyCommands")
  /\ nextGateway' =
       IF ~quickstartGateway.hasExisting /\ nextGateway.denyCommands = "undefined"
         THEN [nextGateway EXCEPT !.denyCommands = "default"]
         ELSE nextGateway
  /\ gw' = [gw EXCEPT !.pc = "return"]
  /\ UNCHANGED <<gwNotes, gwPrompts, gwSettings>>
  /\ GwFrame

\* ReturnedSettings returning the host of every bind
ReturnedSettings_KeepsHost(l) ==
  [ returned |-> TRUE,
    port |-> l.port,
    bind |-> l.bind,
    customBindHost |-> l.customBindHost,
    authMode |-> l.authMode,
    gatewayToken |-> l.gatewayToken,
    tailscaleMode |-> l.tailscaleMode,
    tailscaleResetOnExit |-> l.tailscaleResetOnExit ]

\* the settings object returned
ReturnedSettings(l) ==
  [ returned |-> TRUE,
    port |-> l.port,
    bind |-> l.bind,
    customBindHost |-> IF l.bind = "custom" THEN l.customBindHost ELSE UndefinedText,
    authMode |-> l.authMode,
    gatewayToken |-> l.gatewayToken,
    tailscaleMode |-> l.tailscaleMode,
    tailscaleResetOnExit |-> l.tailscaleResetOnExit ]

GwReturn ==
  /\ GwAt("return")
  /\ gwSettings' = ReturnedSettings(gw)
  /\ gw' = [gw EXCEPT !.pc = "done"]
  /\ UNCHANGED <<nextGateway, gwNotes, gwPrompts>>
  /\ GwFrame

GatewayStep ==
  \/ GwPort
  \/ GwBind
  \/ GwCustomHost
  \/ GwAuth
  \/ GwTailscale
  \/ GwTailscaleBin
  \/ GwResetOnExit
  \/ GwFixBind
  \/ GwFixAuth
  \/ GwToken
  \/ GwPasswordAuth
  \/ GwTokenAuth
  \/ GwBuild
  \/ GwDenyCommands
  \/ GwReturn

vars == <<flow, gwVars, wzVars, chVars, fnVars, exVars>>

\* setupChannels at rest: no call in progress
ChIdle ==
  /\ chOpts = [ quickstartDefaults |-> FALSE ]
  /\ chInput = [ pluginsEnabled |-> TRUE ]
  /\ chNext = [ pluginsEnabled |-> TRUE ]
  /\ brokenPlugins = {}
  /\ loaded = {}
  /\ statusByChannel = <<>>
  /\ selection = <<>>
  /\ ch = [ pc |-> "idle" ]
  /\ chResult = [ returned |-> FALSE ]

\* the helper functions at rest: no call in progress
FnIdle ==
  /\ wt = [ pc |-> "idle" ]
  /\ hk = [ pc |-> "idle" ]
  /\ lw = [ pc |-> "idle" ]
  /\ lg = [ commands |-> 0 ]

\* the remote branch, the custom provider functions and the progress
\* indicators at rest
ExIdle ==
  /\ rm = [ pc |-> "idle" ]
  /\ cu = [ pc |-> "idle" ]
  /\ ap = [ pc |-> "idle" ]
  /\ pg = [ pc |-> "idle" ]

\* the wizard at rest: no run of runOnboardingWizard in progress
WzIdle ==
  /\ opts = [ acceptRisk |-> TRUE, flow |-> UndefinedText, mode |-> "undefined",
              skipChannels |-> FALSE, skipSkills |-> FALSE ]
  /\ snapshot = [ exists |-> FALSE, valid |-> TRUE ]
  /\ persisted = [ origin |-> "none", sections |-> {}, meta |-> "none" ]
  /\ wz = [ pc |-> "idle" ]
  /\ wzLog = <<>>
  /\ wzWrites = <<>>

\* configureGatewayForOnboarding at rest: no call in progress
GwIdle ==
  /\ baseGateway = EmptyGateway
  /\ nextGateway = EmptyGateway
  /\ gw = [GwInitLocals EXCEPT !.pc = "idle"]
  /\ gwNotes = <<>>
  /\ gwPrompts = <<>>
  /\ gwSettings = NoSettings

GatewayInit ==
  /\ ExIdle
  /\ flow \in Flows
  /\ baseGateway \in (IF flow = "quickstart" THEN BaseGateways ELSE AdvancedBaseGateways)
  /\ nextGateway = baseGateway
  /\ gw = GwInitLocals
  /\ gwNotes = <<>>
  /\ gwPrompts = <<>>
  /\ gwSettings = NoSettings
  /\ WzIdle
  /\ ChIdle
  /\ FnIdle

GatewayNext == GatewayStep

GatewaySpec == GatewayInit /\ [][GatewayNext]_vars

(***************************************************************************)
(* runOnboardingWizard, step by step.                                      *)
(*                                                                         *)
(* A configuration document is a record: origin says whether it carries    *)
(* the contents of the stored file ("stored"), starts from {} ("empty") or *)
(* is no document at all ("none"); sections are the parts the wizard's     *)
(* steps have set; meta is the mode recorded by applyWizardMetadata.       *)
(***************************************************************************)
NoDoc == [ origin |-> "none", sections |-> {}, meta |-> "none" ]
StoredDoc == [ origin |-> "stored", sections |-> {}, meta |-> "none" ]
EmptyConfig == [ origin |-> "empty", sections |-> {}, meta |-> "none" ]

\* the persisted document a run starts with
StartDoc(snap) == IF snap.exists THEN StoredDoc ELSE NoDoc

\* opts.flow values: absent, empty, blank, the three accepted words (with
\* surrounding blanks) and words that are not accepted
FlowOptions ==
  { UndefinedText, <<>>, <<" ">>, <<"quickstart">>, <<" ", "manual", " ">>,
    <<"advanced">>, <<"bogus">>, <<"quick", " ", "start">> }

WizardOptions ==
  [ acceptRisk : BOOLEAN,
    flow : FlowOptions,
    mode : {"undefined", "local", "remote"},
    skipChannels : BOOLEAN,
    skipSkills : BOOLEAN ]

\* a file that does not exist is reported valid, with an empty configuration
Snapshots ==
  { [ exists |-> FALSE, valid |-> TRUE ],
    [ exists |-> TRUE, valid |-> TRUE ],
    [ exists |-> TRUE, valid |-> FALSE ] }

WzInitLocals ==
  [ pc |-> "risk", mode |-> "undefined", baseConfig |-> EmptyConfig,
    nextConfig |-> EmptyConfig, exitCode |-> "none", chosenFlow |-> "undefined",
    cancelledAt |-> "none", resetDone |-> FALSE, flowChecked |-> FALSE,
    localProbeOk |-> FALSE, probeFailed |-> FALSE, gatewayProbeOk |-> FALSE ]

WzAt(p) == wz.pc = p

WzLogged(entries) == wzLog' = wzLog \o entries

\* the prompting collaborator raises the cancellation signal at prompt name
WzCancelled(name) == wz' = [wz EXCEPT !.pc = "cancelled", !.cancelledAt = name]

WzFrame == UNCHANGED <<gwVars, chVars, fnVars, exVars, opts, snapshot>>

\* requireRiskAcknowledgement with opts.acceptRisk = true
WzRiskAccepted ==
  /\ WzAt("risk")
  /\ opts.acceptRisk
  /\ wz' = [wz EXCEPT !.pc = "snapshot"]
  /\ UNCHANGED <<flow, persisted, wzLog, wzWrites>>
  /\ WzFrame

\* WzRiskPrompt going on to the snapshot after the operator declined
WzRiskPrompt_DeclineGoesOn ==
  /\ WzAt("risk")
  /\ ~opts.acceptRisk
  /\ WzLogged(<< <<"note", "security">>, <<"prompt", "risk">> >>)
  /\ \/ WzCancelled("risk")
     \/ \E ok \in BOOLEAN :
          wz' = IF ok THEN [wz EXCEPT !.pc = "snapshot"]
                      ELSE [wz EXCEPT !.pc = "snapshot", !.cancelledAt = "riskDeclined"]
  /\ UNCHANGED <<flow, persisted, wzWrites>>
  /\ WzFrame

\* requireRiskAcknowledgement: the note, the confirmation, and the
\* cancellation error when the operator declines
WzRiskPrompt ==
  /\ WzAt("risk")
  /\ ~opts.acceptRisk
  /\ WzLogged(<< <<"note", "security">>, <<"prompt", "risk">> >>)
  /\ \/ WzCancelled("risk")
     \/ \E ok \in BOOLEAN :
          wz' = IF ok THEN [wz EXCEPT !.pc = "snapshot"]
                      ELSE [wz EXCEPT !.pc = "cancelled", !.cancelledAt = "riskDeclined"]
  /\ UNCHANGED <<flow, persisted, wzWrites>>
  /\ WzFrame

\* WzSnapshot going on with an empty configuration over an invalid file
WzSnapshot_IgnoresInvalid ==
  /\ WzAt("snapshot")
  /\ wz' = [wz EXCEPT !.pc = "flowCheck",
               !.baseConfig = IF snapshot.exists /\ snapshot.valid
                                THEN StoredDoc ELSE EmptyConfig]
  /\ UNCHANGED <<flow, persisted, wzLog, wzWrites>>
  /\ WzFrame

\* readConfigFileSnapshot; an existing invalid file ends the run with code 1
WzSnapshot ==
  /\ WzAt("snapshot")
  /\ IF snapshot.exists /\ ~snapshot.valid
       THEN /\ wz' = [wz EXCEPT !.pc = "exited", !.exitCode = "1"]
            /\ WzLogged(<< <<"note", "invalid-config">>, <<"outro", "invalid-config">> >>)
       ELSE /\ wz' = [wz EXCEPT !.pc = "flowCheck",
                        !.baseConfig = IF snapshot.exists THEN StoredDoc ELSE EmptyConfig]
            /\ UNCHANGED wzLog
  /\ UNCHANGED <<flow, persisted, wzWrites>>
  /\ WzFrame

\* explicitFlowRaw: opts.flow?.trim()
ExplicitFlowRaw(f) == IF f = UndefinedText THEN UndefinedText ELSE Trim(f)

\* normalizedExplicitFlow: manual is a synonym of advanced
NormalizedExplicitFlow(f) ==
  IF ExplicitFlowRaw(f) = <<"manual">> THEN <<"advanced">> ELSE ExplicitFlowRaw(f)

\* ExplicitFlowInvalid that accepts every value
ExplicitFlowInvalid_Never(f) == FALSE

\* the test that rejects an explicit flow
ExplicitFlowInvalid(f) ==
  /\ Truthy(NormalizedExplicitFlow(f))
  /\ NormalizedExplicitFlow(f) # <<"quickstart">>
  /\ NormalizedExplicitFlow(f) # <<"advanced">>

\* explicitFlow: the accepted flow, "undefined" when none is given
ExplicitFlow(f) ==
  IF NormalizedExplicitFlow(f) = <<"quickstart">> THEN "quickstart"
  ELSE IF NormalizedExplicitFlow(f) = <<"advanced">> THEN "advanced"
  ELSE "undefined"

\* an invalid explicit flow is reported and ends the run with code 1
WzFlowInvalid ==
  /\ WzAt("flowCheck")
  /\ ExplicitFlowInvalid(opts.flow)
  /\ wz' = [wz EXCEPT !.pc = "exited", !.exitCode = "1", !.flowChecked = TRUE]
  /\ WzLogged(<< <<"error", "invalid-flow">> >>)
  /\ UNCHANGED <<flow, persisted, wzWrites>>
  /\ WzFrame

\* a valid explicit flow is taken as it is
WzFlowExplicit ==
  /\ WzAt("flowCheck")
  /\ ~ExplicitFlowInvalid(opts.flow)
  /\ ExplicitFlow(opts.flow) # "undefined"
  /\ flow' = ExplicitFlow(opts.flow)
  /\ wz' = [wz EXCEPT !.pc = "remoteOverride", !.flowChecked = TRUE,
                      !.chosenFlow = ExplicitFlow(opts.flow)]
  /\ UNCHANGED <<persisted, wzLog, wzWrites>>
  /\ WzFrame

\* without an explicit flow the operator is asked
WzFlowPrompt ==
  /\ WzAt("flowCheck")
  /\ ~ExplicitFlowInvalid(opts.flow)
  /\ ExplicitFlow(opts.flow) = "undefined"
  /\ WzLogged(<< <<"prompt", "flow">> >>)
  /\ \/ /\ WzCancelled("flow")
        /\ UNCHANGED flow
     \/ \E f \in Flows :
          /\ flow' = f
          /\ wz' = [wz EXCEPT !.pc = "remoteOverride", !.flowChecked = TRUE, !.chosenFlow = f]
  /\ UNCHANGED <<persisted, wzWrites>>
  /\ WzFrame

\* EffectiveFlow that honours quickstart for a remote gateway
EffectiveFlow_NoOverride(mode, f) == f

\* quickstart only supports local gateways
EffectiveFlow(mode, f) == IF mode = "remote" /\ f = "quickstart" THEN "advanced" ELSE f

\* opts.mode = remote switches quickstart to advanced, with a note
WzRemoteOverride ==
  /\ WzAt("remoteOverride")
  /\ flow' = EffectiveFlow(opts.mode, flow)
  /\ wzLog' = IF opts.mode = "remote" /\ flow = "quickstart"
                THEN wzLog \o << <<"note", "quickstart-remote">> >>
                ELSE wzLog
  /\ wz' = [wz EXCEPT !.pc = "existing"]
  /\ UNCHANGED <<persisted, wzWrites>>
  /\ WzFrame

\* no configuration file: nothing to keep, update or reset
WzNoExisting ==
  /\ WzAt("existing")
  /\ ~snapshot.exists
  /\ wz' = [wz EXCEPT !.pc = "probe"]
  /\ UNCHANGED <<flow, persisted, wzLog, wzWrites>>
  /\ WzFrame

\* an existing configuration: keep, update or reset
WzExisting ==
  /\ WzAt("existing")
  /\ snapshot.exists
  /\ WzLogged(<< <<"note", "existing-config">>, <<"prompt", "config-handling">> >>)
  /\ \/ WzCancelled("config-handling")
     \/ \E action \in {"keep", "modify", "reset"} :
          wz' = [wz EXCEPT !.pc = IF action = "reset" THEN "resetScope" ELSE "probe"]
  /\ UNCHANGED <<flow, persisted, wzWrites>>
  /\ WzFrame

\* handleReset: the configuration file is removed
handleReset(doc) == NoDoc

\* reset: the scope is asked, handleReset runs, baseConfig becomes {}
WzReset ==
  /\ WzAt("resetScope")
  /\ WzLogged(<< <<"prompt", "reset-scope">> >>)
  /\ \/ /\ WzCancelled("reset-scope")
        /\ UNCHANGED persisted
     \/ /\ persisted' = handleReset(persisted)
        /\ wz' = [wz EXCEPT !.pc = "probe", !.baseConfig = EmptyConfig, !.resetDone = TRUE]
  /\ UNCHANGED <<flow, wzWrites>>
  /\ WzFrame

\* the quickstart summary and the probes of the local gateway and, when a
\* remote url is stored, of the remote gateway; their results only feed the
\* hints of the mode prompt
WzProbe ==
  /\ WzAt("probe")
  /\ \E ok \in BOOLEAN, remoteProbe \in {"null", "ok", "failed"} :
       /\ remoteProbe # "null" => wz.baseConfig.origin = "stored"
       /\ wz' = [wz EXCEPT !.pc = "mode", !.localProbeOk = ok,
                           !.probeFailed = ~ok \/ remoteProbe = "failed"]
  /\ wzLog' = IF flow = "quickstart" THEN wzLog \o << <<"note", "quickstart">> >> ELSE wzLog
  /\ UNCHANGED <<flow, persisted, wzWrites>>
  /\ WzFrame

\* the pc that follows the choice of the mode
AfterMode(mode) == IF mode = "remote" THEN "remoteConfig" ELSE "workspace"

\* mode: opts.mode, else local in quickstart flow
WzModeGiven ==
  /\ WzAt("mode")
  /\ opts.mode # "undefined" \/ flow = "quickstart"
  /\ LET mode == IF opts.mode # "undefined" THEN opts.mode ELSE "local"
     IN wz' = [wz EXCEPT !.pc = AfterMode(mode), !.mode = mode]
  /\ UNCHANGED <<flow, persisted, wzLog, wzWrites>>
  /\ WzFrame

\* mode: asked in advanced flow when opts.mode is absent
WzModePrompt ==
  /\ WzAt("mode")
  /\ opts.mode = "undefined"
  /\ flow # "quickstart"
  /\ WzLogged(<< <<"prompt", "mode">> >>)
  /\ \/ WzCancelled("mode")
     \/ \E mode \in {"local", "remote"} :
          wz' = [wz EXCEPT !.pc = AfterMode(mode), !.mode = mode]
  /\ UNCHANGED <<flow, persisted, wzWrites>>
  /\ WzFrame

\* a document with one more section set
WithSection(doc, section) == [doc EXCEPT !.sections = @ \cup {section}]

\* applyWizardMetadata
applyWizardMetadata(doc, mode) == [doc EXCEPT !.meta = mode]

\* promptRemoteGatewayConfig and applyWizardMetadata
WzRemoteConfig ==
  /\ WzAt("remoteConfig")
  /\ WzLogged(<< <<"prompt", "remote">> >>)
  /\ \/ WzCancelled("remote")
     \/ wz' = [wz EXCEPT !.pc = "remoteWrite",
                 !.nextConfig = applyWizardMetadata(WithSection(wz.baseConfig, "remote"), wz.mode)]
  /\ UNCHANGED <<flow, persisted, wzWrites>>
  /\ WzFrame

\* writeConfigFile: a full overwrite of the persisted document
WzWrite(doc) ==
  /\ persisted' = doc
  /\ wzWrites' = Append(wzWrites, doc)

\* the remote configuration is written and the run ends
WzRemoteWrite ==
  /\ WzAt("remoteWrite")
  /\ WzWrite(wz.nextConfig)
  /\ WzLogged(<< <<"write", "remote">>, <<"outro", "remote">> >>)
  /\ wz' = [wz EXCEPT !.pc = "done"]
  /\ UNCHANGED flow
  /\ WzFrame

\* the workspace directory: asked in advanced flow; then
\* applyOnboardingLocalWorkspaceConfig
WzWorkspace ==
  /\ WzAt("workspace")
  /\ LET applied == [wz EXCEPT !.pc = "auth",
                        !.nextConfig = WithSection(wz.baseConfig, "workspace")]
     IN IF flow = "quickstart"
          THEN /\ wz' = applied
               /\ UNCHANGED wzLog
          ELSE /\ WzLogged(<< <<"prompt", "workspace">> >>)
               /\ \/ WzCancelled("workspace")
                  \/ wz' = applied
  /\ UNCHANGED <<flow, persisted, wzWrites>>
  /\ WzFrame

\* the auth choice, the provider setup and the default model
WzAuth ==
  /\ WzAt("auth")
  /\ WzLogged(<< <<"prompt", "auth">> >>)
  /\ \/ WzCancelled("auth")
     \/ \E changed \in BOOLEAN :
          wz' = [wz EXCEPT !.pc = "gateway",
                    !.nextConfig = IF changed THEN WithSection(@, "auth") ELSE @]
  /\ UNCHANGED <<flow, persisted, wzWrites>>
  /\ WzFrame

\* configureGatewayForOnboarding: advanced flow asks every setting,
\* quickstart flow asks at most for a missing password
WzGateway ==
  /\ WzAt("gateway")
  /\ LET applied == [wz EXCEPT !.pc = "channels",
                        !.nextConfig = WithSection(@, "gateway")]
     IN \/ /\ flow = "quickstart"
           /\ wz' = applied
           /\ UNCHANGED wzLog
        \/ /\ WzLogged(<< <<"prompt", "gateway">> >>)
           /\ \/ WzCancelled("gateway")
              \/ wz' = applied
  /\ UNCHANGED <<flow, persisted, wzWrites>>
  /\ WzFrame

\* AfterChannels of a run that goes on to skill setup without writing
AfterChannels_NoWrite == "skills"

\* the step that follows channel setup: the first writeConfigFile
AfterChannels == "write1"

\* channel setup is skipped on request
WzSkipChannels ==
  /\ WzAt("channels")
  /\ opts.skipChannels
  /\ WzLogged(<< <<"note", "skip-channels">> >>)
  /\ wz' = [wz EXCEPT !.pc = AfterChannels]
  /\ UNCHANGED <<flow, persisted, wzWrites>>
  /\ WzFrame

\* setupChannels
WzChannels ==
  /\ WzAt("channels")
  /\ ~opts.skipChannels
  /\ WzLogged(<< <<"prompt", "channels">> >>)
  /\ \/ WzCancelled("channels")
     \/ \E changed \in BOOLEAN :
          wz' = [wz EXCEPT !.pc = AfterChannels,
                    !.nextConfig = IF changed THEN WithSection(@, "channels") ELSE @]
  /\ UNCHANGED <<flow, persisted, wzWrites>>
  /\ WzFrame

\* the first writeConfigFile, followed by ensureWorkspaceAndSessions
WzFirstWrite ==
  /\ WzAt("write1")
  /\ WzWrite(wz.nextConfig)
  /\ WzLogged(<< <<"write", "local">> >>)
  /\ wz' = [wz EXCEPT !.pc = "skills"]
  /\ UNCHANGED flow
  /\ WzFrame

\* skill setup is skipped on request
WzSkipSkills ==
  /\ WzAt("skills")
  /\ opts.skipSkills
  /\ WzLogged(<< <<"note", "skip-skills">> >>)
  /\ wz' = [wz EXCEPT !.pc = "hooks"]
  /\ UNCHANGED <<flow, persisted, wzWrites>>
  /\ WzFrame

\* setupSkills
WzSkills ==
  /\ WzAt("skills")
  /\ ~opts.skipSkills
  /\ WzLogged(<< <<"prompt", "skills">> >>)
  /\ \/ WzCancelled("skills")
     \/ \E changed \in BOOLEAN :
          wz' = [wz EXCEPT !.pc = "hooks",
                    !.nextConfig = IF changed THEN WithSection(@, "skills") ELSE @]
  /\ UNCHANGED <<flow, persisted, wzWrites>>
  /\ WzFrame

\* setupInternalHooks: the multiselect is issued when a hook is eligible
WzHooks ==
  /\ WzAt("hooks")
  /\ \/ /\ wz' = [wz EXCEPT !.pc = "write2"]
        /\ WzLogged(<< <<"note", "no-hooks">> >>)
     \/ /\ WzLogged(<< <<"prompt", "hooks">> >>)
        /\ \/ WzCancelled("hooks")
           \/ \E changed \in BOOLEAN :
                wz' = [wz EXCEPT !.pc = "write2",
                          !.nextConfig = IF changed THEN WithSection(@, "hooks") ELSE @]
  /\ UNCHANGED <<flow, persisted, wzWrites>>
  /\ WzFrame

\* applyWizardMetadata and the second writeConfigFile
WzSecondWrite ==
  /\ WzAt("write2")
  /\ LET doc == applyWizardMetadata(wz.nextConfig, wz.mode)
     IN /\ WzWrite(doc)
        /\ wz' = [wz EXCEPT !.pc = "finalize", !.nextConfig = doc]
  /\ WzLogged(<< <<"write", "local">> >>)
  /\ UNCHANGED flow
  /\ WzFrame

\* finalizeOnboardingWizard, the gateway service: the prompts about installing
\* it (none when the options, the platform and the flow decide), the install,
\* whose failure is caught and reported in two notes; opts.skipHealth is read
\* here, opts.skipUi at the hatch prompt
WzFinalize ==
  /\ WzAt("finalize")
  /\ \E skipHealth \in BOOLEAN :
       LET after == IF skipHealth THEN "finalProbe" ELSE "waitReachable"
       IN \/ /\ wz' = [wz EXCEPT !.pc = after]
             /\ \/ UNCHANGED wzLog
                \/ WzLogged(<< <<"note", "install-failed">>, <<"note", "install-hint">> >>)
          \/ /\ WzLogged(<< <<"prompt", "finalize">> >>)
             /\ \/ WzCancelled("finalize")
                \/ wz' = [wz EXCEPT !.pc = after]
  /\ UNCHANGED <<flow, persisted, wzWrites>>
  /\ WzFrame

\* waitForGatewayReachable after the service step: the result is not used
WzWaitReachable ==
  /\ WzAt("waitReachable")
  /\ \E reachable \in BOOLEAN :
       wz' = [wz EXCEPT !.pc = "health", !.probeFailed = @ \/ ~reachable]
  /\ UNCHANGED <<flow, persisted, wzLog, wzWrites>>
  /\ WzFrame

\* WzHealth with a health check whose failure ends the run
WzHealth_Throws ==
  /\ WzAt("health")
  /\ \/ /\ wz' = [wz EXCEPT !.pc = "finalProbe"]
        /\ UNCHANGED wzLog
     \/ /\ wz' = [wz EXCEPT !.pc = "exited", !.exitCode = "1", !.probeFailed = TRUE]
        /\ WzLogged(<< <<"error", "health">> >>)
  /\ UNCHANGED <<flow, persisted, wzWrites>>
  /\ WzFrame

\* healthCommand: a failure is caught, logged as an error and followed by a
\* note with the documentation links
WzHealth ==
  /\ WzAt("health")
  /\ \/ /\ wz' = [wz EXCEPT !.pc = "finalProbe"]
        /\ UNCHANGED wzLog
     \/ /\ wz' = [wz EXCEPT !.pc = "finalProbe", !.probeFailed = TRUE]
        /\ WzLogged(<< <<"error", "health">>, <<"note", "health-help">> >>)
  /\ UNCHANGED <<flow, persisted, wzWrites>>
  /\ WzFrame

\* the optional-apps note, the final probe of the gateway and the Control UI
\* note that carries its status line
WzFinalProbe ==
  /\ WzAt("finalProbe")
  /\ \E ok \in BOOLEAN :
       /\ wz' = [wz EXCEPT !.pc = "hatch", !.gatewayProbeOk = ok,
                           !.probeFailed = @ \/ ~ok]
       /\ WzLogged(<< <<"note", "optional-apps">>,
                      <<"note", IF ok THEN "gateway-reachable" ELSE "gateway-not-detected">> >>)
  /\ UNCHANGED <<flow, persisted, wzWrites>>
  /\ WzFrame

\* how to hatch the bot (TUI, Web UI or later): asked when the UI is wanted
\* and the gateway answers
WzHatch ==
  /\ WzAt("hatch")
  /\ \E skipUi \in BOOLEAN :
       IF ~skipUi /\ wz.gatewayProbeOk
         THEN /\ WzLogged(<< <<"note", "token">>, <<"prompt", "hatch">> >>)
              /\ \/ WzCancelled("hatch")
                 \/ wz' = [wz EXCEPT !.pc = "outro"]
         ELSE /\ wz' = [wz EXCEPT !.pc = "outro"]
              /\ wzLog' = IF skipUi THEN wzLog \o << <<"note", "skip-ui">> >>
                                    ELSE wzLog
  /\ UNCHANGED <<flow, persisted, wzWrites>>
  /\ WzFrame

\* the closing notes and the outro
WzOutro ==
  /\ WzAt("outro")
  /\ WzLogged(<< <<"note", "what-now">>, <<"outro", "complete">> >>)
  /\ wz' = [wz EXCEPT !.pc = "done"]
  /\ UNCHANGED <<flow, persisted, wzWrites>>
  /\ WzFrame

Init ==
  /\ ExIdle
  /\ flow = "undefined"
  /\ opts \in WizardOptions
  /\ snapshot \in Snapshots
  /\ persisted = StartDoc(snapshot)
  /\ wz = WzInitLocals
  /\ wzLog = <<>>
  /\ wzWrites = <<>>
  /\ GwIdle
  /\ ChIdle
  /\ FnIdle

Next ==
  \/ WzRiskAccepted
  \/ WzRiskPrompt
  \/ WzSnapshot
  \/ WzFlowInvalid
  \/ WzFlowExplicit
  \/ WzFlowPrompt
  \/ WzRemoteOverride
  \/ WzNoExisting
  \/ WzExisting
  \/ WzReset
  \/ WzProbe
  \/ WzModeGiven
  \/ WzModePrompt
  \/ WzRemoteConfig
  \/ WzRemoteWrite
  \/ WzWorkspace
  \/ WzAuth
  \/ WzGateway
  \/ WzSkipChannels
  \/ WzChannels
  \/ WzFirstWrite
  \/ WzSkipSkills
  \/ WzSkills
  \/ WzHooks
  \/ WzSecondWrite
  \/ WzFinalize
  \/ WzWaitReachable
  \/ WzHealth
  \/ WzFinalProbe
  \/ WzHatch
  \/ WzOutro

Spec == Init /\ [][Next]_vars

(***************************************************************************)
(* setupChannels: channels, plugins and the configuration.                 *)
(*                                                                         *)
(* The configuration keeps, for each channel, the account ids that have    *)
(* stored settings (accounts), those of them marked inactive (disabled),   *)
(* the plugin entry plugins.entries[channel].enabled (entries), and the    *)
(* channels whose DM policy was changed (dm); pluginsEnabled is            *)
(* plugins.enabled !== false.                                              *)
(***************************************************************************)
Channels == {"telegram", "slack", "matrix", "irc"}
\* listChatChannels(): the core chat channels
listChatChannels == {"telegram", "slack"}
\* listChannelPluginCatalogEntries(): channels whose plugin can be installed
listChannelPluginCatalogEntries == {"matrix"}
\* the channel plugins that carry an onboarding adapter
OnboardingChannels == {"telegram", "slack", "matrix"}
\* the plugins loaded without a plugin entry
DefaultEnabledPlugins == {"telegram", "irc"}
\* plugin.config.deleteAccount, plugin.config.setAccountEnabled, adapter.disable
DeleteAccountChannels == {"telegram", "matrix"}
SetAccountEnabledChannels == {"telegram"}
AdapterDisableChannels == {"slack", "matrix"}
\* adapter.dmPolicy
DmPolicyChannels == {"telegram", "slack"}

DEFAULT_ACCOUNT_ID == "default"
AccountIds == {DEFAULT_ACCOUNT_ID, "work"}
AccountIdsOf(channel) ==
  IF channel = "telegram" THEN AccountIds ELSE {DEFAULT_ACCOUNT_ID}

PluginEntries == {"undefined", "enabled", "disabled"}

\* the configurations setupChannels is called with
InputConfigs ==
  { [ accounts |-> [ c \in Channels |->
                       CASE c = "telegram" -> tg.accounts
                         [] c = "slack" -> sl
                         [] c = "matrix" -> mx.accounts
                         [] OTHER -> {} ],
      disabled |-> [ c \in Channels |->
                       IF c = "telegram" THEN tg.disabled ELSE {} ],
      entries |-> [ c \in Channels |->
                       CASE c = "slack" -> slEntry
                         [] c = "matrix" -> mx.entry
                         [] OTHER -> "undefined" ],
      pluginsEnabled |-> pe,
      dm |-> {} ] :
    tg \in { [ accounts |-> {}, disabled |-> {} ],
             [ accounts |-> {"default"}, disabled |-> {} ],
             [ accounts |-> {"default"}, disabled |-> {"default"} ],
             [ accounts |-> {"default", "work"}, disabled |-> {} ] },
    sl \in { {}, {"default"}, {"default", "work"} },
    slEntry \in PluginEntries,
    mx \in { [ accounts |-> {}, entry |-> "undefined" ],
             [ accounts |-> {}, entry |-> "enabled" ],
             [ accounts |-> {"default"}, entry |-> "undefined" ],
             [ accounts |-> {"default"}, entry |-> "enabled" ] },
    pe \in BOOLEAN }

\* SetupChannelsOptions: the wizard's quickstart and advanced calls
\* (onboarding.ts 511-526), the quickstart call that still asks for DM
\* policies, and a call that allows disable and delete
ChannelOptions ==
  { [ quickstartDefaults |-> TRUE, skipConfirm |-> TRUE,
      skipDmPolicyPrompt |-> TRUE, allowDisable |-> FALSE ],
    [ quickstartDefaults |-> FALSE, skipConfirm |-> FALSE,
      skipDmPolicyPrompt |-> FALSE, allowDisable |-> FALSE ],
    [ quickstartDefaults |-> TRUE, skipConfirm |-> TRUE,
      skipDmPolicyPrompt |-> FALSE, allowDisable |-> FALSE ],
    [ quickstartDefaults |-> FALSE, skipConfirm |-> FALSE,
      skipDmPolicyPrompt |-> FALSE, allowDisable |-> TRUE ] }

\* the plugin registry built from a configuration
LoadableFrom(cfg) ==
  { c \in Channels :
      /\ cfg.pluginsEnabled
      /\ cfg.entries[c] # "disabled"
      /\ (c \in DefaultEnabledPlugins \/ cfg.entries[c] = "enabled") }

\* the sets of plugins that cannot be loaded
BrokenPluginSets == { {}, {"slack"}, {"matrix"} }

\* reloadOnboardingPluginRegistry: the registry after a reload
reloadOnboardingPluginRegistry(cfg, broken) == LoadableFrom(cfg) \ broken

getChannelPlugin(registry, channel) == channel \in registry

getChannelOnboardingAdapter(registry, channel) ==
  channel \in registry /\ channel \in OnboardingChannels

\* isChannelConfigured(cfg, id): the channel has stored settings
isChannelConfigured(cfg, channel) == cfg.accounts[channel] # {}

\* adapter.getStatus({cfg}).configured, as a status value
getStatus(cfg, channel) ==
  IF cfg.accounts[channel] # {} THEN "configured" ELSE "unconfigured"

\* catalog entries not yet installed
catalogEntries(registry) == listChannelPluginCatalogEntries \ registry

collectChannelStatus(cfg, registry) ==
  [ c \in Channels |->
      IF getChannelOnboardingAdapter(registry, c) THEN getStatus(cfg, c)
      ELSE IF c \in listChatChannels
        THEN (IF isChannelConfigured(cfg, c) THEN "configured" ELSE "unconfigured")
      ELSE IF c \in catalogEntries(registry) THEN "unconfigured"
      ELSE "none" ]

\* getChannelEntries().entries: the channels the selection prompt offers
getChannelEntries(registry) ==
  listChatChannels \cup registry \cup catalogEntries(registry)

refreshStatus_Stale(status, cfg, registry, channel) == status
refreshStatus(status, cfg, registry, channel) ==
  IF ~getChannelOnboardingAdapter(registry, channel) THEN status
  ELSE [status EXCEPT ![channel] = getStatus(cfg, channel)]

\* enablePluginInConfig(cfg, pluginId)
enablePluginInConfig(cfg, channel) ==
  IF ~cfg.pluginsEnabled THEN [ config |-> cfg, enabled |-> FALSE ]
  ELSE [ config |-> [cfg EXCEPT !.entries[channel] = "enabled"], enabled |-> TRUE ]

\* ensureOnboardingPluginInstalled: installed says whether the install
\* succeeded; a failed or declined install returns cfg as it was
ensureOnboardingPluginInstalled(cfg, channel, installed) ==
  IF installed
    THEN [ cfg |-> [cfg EXCEPT !.entries[channel] = "enabled"], installed |-> TRUE ]
    ELSE [ cfg |-> cfg, installed |-> FALSE ]

\* adapter.configure: stores the settings of one account and activates it
configure(cfg, channel, accountId) ==
  [cfg EXCEPT !.accounts[channel] = @ \cup {accountId},
              !.disabled[channel] = @ \ {accountId}]

\* plugin.config.deleteAccount({cfg, accountId})
deleteAccount(cfg, channel, accountId) ==
  [cfg EXCEPT !.accounts[channel] = @ \ {accountId},
              !.disabled[channel] = @ \ {accountId}]

\* plugin.config.setAccountEnabled({cfg, accountId, enabled: false})
setAccountEnabled(cfg, channel, accountId) ==
  [cfg EXCEPT !.disabled[channel] = @ \cup ({accountId} \cap cfg.accounts[channel])]

\* adapter.disable(cfg): the whole channel is marked inactive
disable(cfg, channel) ==
  [cfg EXCEPT !.disabled[channel] = cfg.accounts[channel]]

\* plugin.config.listAccountIds(cfg)
listAccountIds(cfg, channel) == cfg.accounts[channel]

resolveChannelDefaultAccountId(cfg, channel) ==
  IF DEFAULT_ACCOUNT_ID \in cfg.accounts[channel] \/ cfg.accounts[channel] = {}
    THEN DEFAULT_ACCOUNT_ID
    ELSE CHOOSE a \in cfg.accounts[channel] : TRUE

addSelection(sel, channel) ==
  IF \E i \in 1..Len(sel) : sel[i] = channel THEN sel ELSE Append(sel, channel)

MaxRounds == 2

NoResult == [ returned |-> FALSE ]

ChInitLocals ==
  [ pc |-> "start", channel |-> "none", action |-> "none", accountId |-> "none",
    accountPrompted |-> FALSE, selectPrompts |-> 0, touched |-> {},
    rounds |-> 0, selectedConfigured |-> FALSE, unloadedSelected |-> FALSE,
    skipRound |-> FALSE, otherRound |-> FALSE,
    lastInstall |-> "none", configureCalled |-> FALSE,
    failedInstalls |-> {} ]

(***************************************************************************)
(* setupChannels, step by step                                             *)
(***************************************************************************)
ChAt(pc) == ch.pc = pc
ChFrame == UNCHANGED <<flow, gwVars, wzVars, fnVars, exVars, chOpts, chInput, brokenPlugins>>

\* where control goes when handleChannelChoice returns: the quickstart
\* prompt is asked once, the advanced loop asks again
AfterChoice_Loop == "select"
AfterChoice == IF chOpts.quickstartDefaults THEN "finish" ELSE "select"

\* collectChannelStatus and the status note
ChStart ==
  /\ ChAt("start")
  /\ statusByChannel' = collectChannelStatus(chNext, loaded)
  /\ ch' = [ch EXCEPT !.pc = "confirm"]
  /\ UNCHANGED <<chNext, loaded, selection, chResult>>
  /\ ChFrame

\* "Configure chat channels now?"; declining returns cfg
ChConfirm ==
  /\ ChAt("confirm")
  /\ \E shouldConfigure \in (IF chOpts.skipConfirm THEN {TRUE} ELSE BOOLEAN) :
       IF shouldConfigure
         THEN /\ ch' = [ch EXCEPT !.pc = "select"]
              /\ UNCHANGED chResult
         ELSE /\ ch' = [ch EXCEPT !.pc = "returned"]
              /\ chResult' = [ returned |-> TRUE, cfg |-> chInput ]
  /\ UNCHANGED <<chNext, loaded, statusByChannel, selection>>
  /\ ChFrame

\* the locals at the start of handleChannelChoice(choice)
ChChosen(choice) ==
  [ch EXCEPT !.pc = IF choice \in catalogEntries(loaded) THEN "install"
                    ELSE "ensureEnabled",
             !.channel = choice,
             !.action = "none",
             !.accountId = "none",
             !.accountPrompted = FALSE,
             !.rounds = @ + 1,
             !.selectPrompts = @ + 1,
             !.touched = @ \cup {choice},
             !.selectedConfigured = statusByChannel[choice] = "configured",
             !.unloadedSelected = @ \/ ~getChannelPlugin(loaded, choice),
             !.lastInstall = "none",
             !.configureCalled = FALSE]

ChEndSelecting_Reprompt == [ch EXCEPT !.selectPrompts = @ + 1]
ChEndSelecting ==
  [ch EXCEPT !.pc = "finish", !.selectPrompts = @ + 1,
             !.lastInstall = "none", !.configureCalled = FALSE]

\* quickstart: one select over the channels and "__skip__"
ChSelectQuickstart ==
  /\ ChAt("select")
  /\ chOpts.quickstartDefaults
  /\ \/ \E choice \in getChannelEntries(loaded) :
          /\ ch.rounds < MaxRounds
          /\ ch' = ChChosen(choice)
     \/ ch' = ChEndSelecting
  /\ UNCHANGED <<chNext, loaded, statusByChannel, selection, chResult>>
  /\ ChFrame

\* advanced: the loop's select over the channels and "__done__"
ChSelectAdvanced ==
  /\ ChAt("select")
  /\ ~chOpts.quickstartDefaults
  /\ \/ \E choice \in getChannelEntries(loaded) :
          /\ ch.rounds < MaxRounds
          /\ ch' = ChChosen(choice)
     \/ ch' = ChEndSelecting
  /\ UNCHANGED <<chNext, loaded, statusByChannel, selection, chResult>>
  /\ ChFrame

\* where handleChannelChoice goes after ensureOnboardingPluginInstalled
AfterInstall_Always(installed) == "decide"
AfterInstall(installed) == IF installed THEN "decide" ELSE AfterChoice

\* handleChannelChoice, catalog entry: install the plugin
ChInstall ==
  /\ ChAt("install")
  /\ \E installed \in BOOLEAN :
       LET result == ensureOnboardingPluginInstalled(chNext, ch.channel, installed)
       IN /\ chNext' = result.cfg
          /\ IF ~result.installed
               THEN /\ ch' = [ch EXCEPT !.pc = AfterInstall(FALSE),
                                        !.lastInstall = "failed",
                                        !.failedInstalls = @ \cup {ch.channel},
                                        !.otherRound = TRUE]
                    /\ UNCHANGED <<loaded, statusByChannel>>
               ELSE /\ loaded' = reloadOnboardingPluginRegistry(result.cfg, brokenPlugins)
                    /\ statusByChannel' =
                         refreshStatus(statusByChannel, result.cfg, loaded', ch.channel)
                    /\ ch' = [ch EXCEPT !.pc = AfterInstall(TRUE),
                                        !.lastInstall = "installed"]
  /\ UNCHANGED <<selection, chResult>>
  /\ ChFrame

\* handleChannelChoice, other channels: ensureBundledPluginEnabled
ChEnsureEnabled ==
  /\ ChAt("ensureEnabled")
  /\ IF getChannelPlugin(loaded, ch.channel)
       THEN /\ ch' = [ch EXCEPT !.pc = "decide"]
            /\ UNCHANGED <<chNext, loaded, statusByChannel>>
       ELSE LET result == enablePluginInConfig(chNext, ch.channel)
            IN /\ chNext' = result.config
               /\ IF ~result.enabled
                    THEN /\ ch' = [ch EXCEPT !.pc = AfterChoice, !.otherRound = TRUE]
                         /\ UNCHANGED <<loaded, statusByChannel>>
                    ELSE /\ loaded' = reloadOnboardingPluginRegistry(result.config,
                                                                        brokenPlugins)
                         /\ IF ~getChannelPlugin(loaded', ch.channel)
                              THEN /\ ch' = [ch EXCEPT !.pc = AfterChoice,
                                                       !.otherRound = TRUE]
                                   /\ UNCHANGED statusByChannel
                              ELSE /\ statusByChannel' =
                                        refreshStatus(statusByChannel, result.config,
                                                      loaded', ch.channel)
                                   /\ ch' = [ch EXCEPT !.pc = "decide"]
  /\ UNCHANGED <<selection, chResult>>
  /\ ChFrame

\* status?.configured ?? false
StatusConfigured_Always(status, channel) == TRUE
StatusConfigured(status, channel) == status[channel] = "configured"

\* handleChannelChoice: the configured / not-configured decision
ChDecide ==
  /\ ChAt("decide")
  /\ ch' = [ch EXCEPT !.pc = IF StatusConfigured(statusByChannel, ch.channel)
                             THEN "configuredAction" ELSE "configure"]
  /\ UNCHANGED <<chNext, loaded, statusByChannel, selection, chResult>>
  /\ ChFrame

\* configureChannel
ChConfigure ==
  /\ ChAt("configure")
  /\ IF ~getChannelOnboardingAdapter(loaded, ch.channel)
       THEN /\ ch' = [ch EXCEPT !.pc = AfterChoice, !.action = "none",
                                !.otherRound = TRUE]
            /\ UNCHANGED <<chNext, statusByChannel, selection>>
       ELSE \E accountId \in AccountIdsOf(ch.channel) :
              /\ chNext' = configure(chNext, ch.channel, accountId)
              /\ selection' = addSelection(selection, ch.channel)
              /\ statusByChannel' =
                   refreshStatus(statusByChannel, chNext', loaded, ch.channel)
              /\ ch' = [ch EXCEPT !.pc = AfterChoice,
                                  !.action = "none",
                                  !.configureCalled = TRUE,
                                  !.otherRound = TRUE]
  /\ UNCHANGED <<loaded, chResult>>
  /\ ChFrame

supportsDisable(options, registry, channel) ==
  /\ options.allowDisable
  /\ \/ (getChannelPlugin(registry, channel) /\ channel \in SetAccountEnabledChannels)
     \/ (getChannelOnboardingAdapter(registry, channel) /\ channel \in AdapterDisableChannels)

supportsDelete(options, registry, channel) ==
  /\ options.allowDisable
  /\ getChannelPlugin(registry, channel)
  /\ channel \in DeleteAccountChannels

\* promptConfiguredAction: the options offered
ConfiguredActions(canDisable, canDelete) ==
  {"update", "skip"} \cup (IF canDisable THEN {"disable"} ELSE {})
                     \cup (IF canDelete THEN {"delete"} ELSE {})

\* handleConfiguredChannel: the action prompt and its dispatch
ChConfiguredAction ==
  /\ ChAt("configuredAction")
  /\ \E action \in ConfiguredActions(supportsDisable(chOpts, loaded, ch.channel),
                                     supportsDelete(chOpts, loaded, ch.channel)) :
       ch' = [ch EXCEPT
                !.action = IF action = "skip" THEN "none" ELSE action,
                !.pc = IF action = "skip" THEN AfterChoice
                       ELSE IF action = "update" THEN "configure"
                       ELSE IF ~chOpts.allowDisable THEN AfterChoice
                       ELSE IF action = "delete"
                               /\ ~supportsDelete(chOpts, loaded, ch.channel)
                         THEN AfterChoice
                       ELSE "removalAccount",
                !.skipRound = @ \/ (action = "skip" /\ ch.selectedConfigured),
                !.otherRound = IF action = "skip" /\ ch.selectedConfigured
                               THEN @ ELSE TRUE]
  /\ UNCHANGED <<chNext, loaded, statusByChannel, selection, chResult>>
  /\ ChFrame

\* handleConfiguredChannel: whether promptRemovalAccountId is called
shouldPromptAccount_Never(action, registry, channel) == FALSE
shouldPromptAccount(action, registry, channel) ==
  IF action = "delete"
    THEN getChannelPlugin(registry, channel) /\ channel \in DeleteAccountChannels
    ELSE getChannelPlugin(registry, channel) /\ channel \in SetAccountEnabledChannels

\* promptRemovalAccountId: the select is issued for more than one account id
RemovalPromptIssued(action, registry, cfg, channel) ==
  /\ shouldPromptAccount(action, registry, channel)
  /\ Cardinality(listAccountIds(cfg, channel)) > 1

\* handleConfiguredChannel: the account a delete or disable applies to
ChRemovalAccount ==
  /\ ChAt("removalAccount")
  /\ LET accountIds == listAccountIds(chNext, ch.channel)
         prompted == RemovalPromptIssued(ch.action, loaded, chNext, ch.channel)
         answers ==
           IF ~shouldPromptAccount(ch.action, loaded, ch.channel)
             THEN {DEFAULT_ACCOUNT_ID}
           ELSE IF ~prompted
             THEN {resolveChannelDefaultAccountId(chNext, ch.channel)}
           ELSE accountIds
     IN \E accountId \in answers :
          ch' = [ch EXCEPT !.accountId = accountId,
                           !.accountPrompted = prompted,
                           !.pc = IF ch.action = "delete" THEN "deleteConfirm"
                                  ELSE "disable"]
  /\ UNCHANGED <<chNext, loaded, statusByChannel, selection, chResult>>
  /\ ChFrame

\* DeleteConfirm deleting the account whatever the answer
DeleteConfirm_IgnoresAnswer(confirmed) ==
  /\ ChAt("deleteConfirm")
  /\ chNext' = IF ch.channel \in DeleteAccountChannels
                THEN deleteAccount(chNext, ch.channel, ch.accountId)
                ELSE chNext
  /\ statusByChannel' = refreshStatus(statusByChannel, chNext', loaded, ch.channel)
  /\ ch' = [ch EXCEPT !.pc = AfterChoice, !.action = "none",
                      !.accountId = "none", !.accountPrompted = FALSE]
  /\ UNCHANGED <<loaded, selection, chResult>>
  /\ ChFrame

\* handleConfiguredChannel: delete, with the answer to its confirmation
DeleteConfirm(confirmed) ==
  /\ ChAt("deleteConfirm")
  /\ IF ~confirmed
       THEN /\ ch' = [ch EXCEPT !.pc = AfterChoice, !.action = "none",
                                !.accountId = "none", !.accountPrompted = FALSE]
            /\ UNCHANGED <<chNext, statusByChannel>>
       ELSE /\ chNext' = IF ch.channel \in DeleteAccountChannels
                         THEN deleteAccount(chNext, ch.channel, ch.accountId)
                         ELSE chNext
            /\ statusByChannel' =
                 refreshStatus(statusByChannel, chNext', loaded, ch.channel)
            /\ ch' = [ch EXCEPT !.pc = AfterChoice, !.action = "none",
                                !.accountId = "none", !.accountPrompted = FALSE]
  /\ UNCHANGED <<loaded, selection, chResult>>
  /\ ChFrame

\* handleConfiguredChannel: delete, after its confirmation
ChDeleteConfirm == \E confirmed \in BOOLEAN : DeleteConfirm(confirmed)

\* handleConfiguredChannel: the configuration after disable
DisabledConfig_Deletes(cfg, channel, accountId) == deleteAccount(cfg, channel, accountId)
DisabledConfig(cfg, channel, accountId) ==
  IF channel \in SetAccountEnabledChannels
    THEN setAccountEnabled(cfg, channel, accountId)
  ELSE IF channel \in AdapterDisableChannels
    THEN disable(cfg, channel)
  ELSE cfg

\* handleConfiguredChannel: disable
ChDisable ==
  /\ ChAt("disable")
  /\ chNext' = DisabledConfig(chNext, ch.channel, ch.accountId)
  /\ statusByChannel' = refreshStatus(statusByChannel, chNext', loaded, ch.channel)
  /\ ch' = [ch EXCEPT !.pc = AfterChoice, !.action = "none", !.accountId = "none",
                      !.accountPrompted = FALSE]
  /\ UNCHANGED <<loaded, selection, chResult>>
  /\ ChFrame

\* the DM policies of the selected channels
dmPolicies(sel, registry) ==
  { c \in Channels :
      /\ \E i \in 1..Len(sel) : sel[i] = c
      /\ getChannelOnboardingAdapter(registry, c)
      /\ c \in DmPolicyChannels }

\* after the selection: return next unless DM policies are to be asked
ChFinish ==
  /\ ChAt("finish")
  /\ IF chOpts.skipDmPolicyPrompt \/ dmPolicies(selection, loaded) = {}
       THEN /\ ch' = [ch EXCEPT !.pc = "returned"]
            /\ chResult' = [ returned |-> TRUE, cfg |-> chNext ]
       ELSE /\ ch' = [ch EXCEPT !.pc = "dmPolicies"]
            /\ UNCHANGED chResult
  /\ UNCHANGED <<chNext, loaded, statusByChannel, selection>>
  /\ ChFrame

\* maybeConfigureDmPolicies: the confirmation and one policy per channel
ChDmPolicies ==
  /\ ChAt("dmPolicies")
  /\ \E wants \in BOOLEAN :
       \E changed \in SUBSET dmPolicies(selection, loaded) :
         /\ wants \/ changed = {}
         /\ chNext' = [chNext EXCEPT !.dm = (@ \ dmPolicies(selection, loaded)) \cup changed]
         /\ chResult' = [ returned |-> TRUE, cfg |-> chNext' ]
  /\ ch' = [ch EXCEPT !.pc = "returned"]
  /\ UNCHANGED <<loaded, statusByChannel, selection>>
  /\ ChFrame

ChannelsInit ==
  /\ ExIdle
  /\ flow = "undefined"
  /\ GwIdle
  /\ WzIdle
  /\ FnIdle
  /\ chOpts \in ChannelOptions
  /\ chInput \in InputConfigs
  /\ chNext = chInput
  /\ brokenPlugins \in BrokenPluginSets
  /\ loaded = reloadOnboardingPluginRegistry(chInput, brokenPlugins)
  /\ statusByChannel = [ c \in Channels |-> "none" ]
  /\ selection = <<>>
  /\ ch = ChInitLocals
  /\ chResult = NoResult

ChannelsNext ==
  \/ ChStart
  \/ ChConfirm
  \/ ChSelectQuickstart
  \/ ChSelectAdvanced
  \/ ChInstall
  \/ ChEnsureEnabled
  \/ ChDecide
  \/ ChConfigure
  \/ ChConfiguredAction
  \/ ChRemovalAccount
  \/ ChDeleteConfirm
  \/ ChDisable
  \/ ChFinish
  \/ ChDmPolicies

ChannelsSpec == ChannelsInit /\ [][ChannelsNext]_vars

(***************************************************************************)
(* Properties of setupChannels (ChannelsSpec)                              *)
(***************************************************************************)
ChReturned == chResult.returned

\* every channel handled in this call had the status configured when it was
\* selected and was answered with skip at its configured-action prompt
OnlySkipRounds == ch.skipRound /\ ~ch.otherRound

\* C6: when every round of the call selected a channel whose status was
\* configured and chose skip at its configured-action prompt, whether or not
\* the channel's plugin was loaded when it was selected, the configuration
\* setupChannels returns equals the configuration it was called with.
C6_SkipReturnsInput ==
  (ChReturned /\ OnlySkipRounds) => chResult.cfg = chInput

\* skip rounds on channels whose plugin was loaded when they were selected
\* return the input configuration
SkipWithLoadedPluginReturnsInput ==
  (ChReturned /\ OnlySkipRounds /\ ~ch.unloadedSelected) => chResult.cfg = chInput

\* C9: at every configured / not-configured decision, the status entry of
\* the channel is the status computed from the current configuration and
\* plugin registry, whatever install, enable, configure, disable or delete
\* came before.
C9_DecisionOnFreshStatus ==
  ChAt("decide") =>
    statusByChannel[ch.channel] = collectChannelStatus(chNext, loaded)[ch.channel]

\* a decision for a channel whose stored accounts were changed in this call
C9_Witness ==
  /\ ChAt("decide")
  /\ chNext.accounts[ch.channel] # chInput.accounts[ch.channel]

\* C10: after a failed plugin install for the selected catalog channel,
\* configure has not been called for it, its status is still not configured,
\* and the call carries on normally: in the advanced flow at the channel
\* selection prompt, in the quickstart flow towards its return.
C10_InstallFailureIsolated ==
  ch.lastInstall = "failed" =>
    /\ ~ch.configureCalled
    /\ statusByChannel[ch.channel] = "unconfigured"
    /\ ch.channel \notin { selection[i] : i \in 1..Len(selection) }
    /\ IF chOpts.quickstartDefaults
         THEN ch.pc \in {"finish", "dmPolicies", "returned"}
         ELSE ChAt("select")

\* advanced flow: a channel was configured in the round after an install
\* had failed, and the selection prompt is offered once more
C10_Witness ==
  /\ ~chOpts.quickstartDefaults
  /\ ch.failedInstalls # {}
  /\ ch.configureCalled
  /\ ChAt("select")

\* the actions the configured-action prompt offers for the channel in hand
OfferedActions ==
  ConfiguredActions(supportsDisable(chOpts, loaded, ch.channel),
                    supportsDelete(chOpts, loaded, ch.channel))

\* C11 as stated: the configured-action prompt is issued only for a channel
\* whose status is configured, and it offers each of update, disable, delete
\* and skip.
C11_AllActionsOffered ==
  ChAt("configuredAction") =>
    /\ statusByChannel[ch.channel] = "configured"
    /\ OfferedActions = {"update", "disable", "delete", "skip"}

\* C11: the configured-action prompt is issued only for a channel whose
\* status is configured and always offers update and skip; disable or delete
\* is taken only in a call that allows disable, for a channel whose plugin
\* can disable or delete; a channel whose status is not configured goes
\* straight to configure.
C11_ActionsOnlyWhenConfigured ==
  /\ ChAt("configuredAction") =>
       /\ statusByChannel[ch.channel] = "configured"
       /\ {"update", "skip"} \subseteq OfferedActions
  /\ ch.action # "none" => isChannelConfigured(chNext, ch.channel)
  /\ ch.action = "disable" =>
       /\ chOpts.allowDisable
       /\ ch.channel \in SetAccountEnabledChannels \cup AdapterDisableChannels
  /\ ch.action = "delete" =>
       /\ chOpts.allowDisable
       /\ ch.channel \in DeleteAccountChannels
  /\ (ChAt("configure") /\ ch.action = "none") =>
       statusByChannel[ch.channel] # "configured"

\* a call that allows disable, at the prompt with all four actions offered
C11_Witness ==
  /\ ChAt("configuredAction")
  /\ OfferedActions = {"update", "disable", "delete", "skip"}

\* every account the channel had stored when setupChannels was called has
\* been deleted, and none was stored since
DeletedAll(channel) ==
  /\ isChannelConfigured(chInput, channel)
  /\ ~isChannelConfigured(chNext, channel)

\* C12: once the confirmed delete has removed the last account of a channel,
\* the channel's status entry is not configured, the configured-action
\* prompt is not issued for it, and selecting it again leads to configure.
C12_DeleteLastAccountUnconfigures ==
  /\ \A c \in Channels : DeletedAll(c) => statusByChannel[c] = "unconfigured"
  /\ ChAt("configuredAction") => ~DeletedAll(ch.channel)
  /\ (ChAt("decide") /\ DeletedAll(ch.channel)) =>
       ~StatusConfigured(statusByChannel, ch.channel)

\* the multi-account channel is selected again after its only account was
\* deleted, and configure is entered
C12_Witness ==
  /\ ChAt("configure")
  /\ ch.action = "none"
  /\ ch.channel = "telegram"
  /\ DeletedAll(ch.channel)

\* the accounts of the channel in hand marked inactive, or removed, by a step
NewlyDisabled == chNext'.disabled[ch.channel] \ chNext.disabled[ch.channel]
NewlyDeleted == chNext.accounts[ch.channel] \ chNext'.accounts[ch.channel]

\* the accounts of the other channels are as they were
OtherChannelsKept ==
  \A c \in Channels \ {ch.channel} :
    /\ chNext'.accounts[c] = chNext.accounts[c]
    /\ chNext'.disabled[c] = chNext.disabled[c]

\* C13 as stated: before a delete or disable the account prompt is issued
\* exactly when the channel lists more than one account id, and the delete
\* or disable touches the selected account id and no other account.
C13_PromptIffSeveralAccounts ==
  [][ /\ ChAt("removalAccount") =>
           (ch'.accountPrompted <=>
              Cardinality(listAccountIds(chNext, ch.channel)) > 1)
      /\ ChAt("disable") =>
           (NewlyDisabled \subseteq {ch.accountId} /\ OtherChannelsKept)
      /\ ChAt("deleteConfirm") =>
           (NewlyDeleted \subseteq {ch.accountId} /\ OtherChannelsKept) ]_vars

\* C13: the account prompt is issued exactly when the plugin provides the
\* per-account operation (deleteAccount for delete, setAccountEnabled for
\* disable) and the channel lists more than one account id; otherwise the
\* default account is used without a prompt.  A delete removes the selected
\* account and no other; a disable through setAccountEnabled marks the
\* selected account and no other; a disable through the adapter's disable
\* marks the whole channel.  No other channel is touched.
C13_PromptIffSeveralAccountsOfPerAccountOperation ==
  [][ /\ ChAt("removalAccount") =>
           /\ ch'.accountPrompted <=>
                /\ Cardinality(listAccountIds(chNext, ch.channel)) > 1
                /\ IF ch.action = "delete"
                     THEN ch.channel \in DeleteAccountChannels
                     ELSE ch.channel \in SetAccountEnabledChannels
           /\ ~ch'.accountPrompted =>
                ch'.accountId \in
                  (IF listAccountIds(chNext, ch.channel) = {"work"}
                     /\ (ch.action = "delete"
                         \/ ch.channel \in SetAccountEnabledChannels)
                   THEN {"work"} ELSE {DEFAULT_ACCOUNT_ID})
           /\ ch'.accountPrompted =>
                ch'.accountId \in listAccountIds(chNext, ch.channel)
      /\ ChAt("disable") =>
           /\ OtherChannelsKept
           /\ chNext'.accounts = chNext.accounts
           /\ IF ch.channel \in SetAccountEnabledChannels
                THEN NewlyDisabled \subseteq {ch.accountId}
                     /\ ch.accountId \in chNext'.disabled[ch.channel]
                ELSE chNext'.disabled[ch.channel] = chNext.accounts[ch.channel]
      /\ ChAt("deleteConfirm") =>
           /\ OtherChannelsKept
           /\ NewlyDeleted \subseteq {ch.accountId}
           /\ (chNext' # chNext => ch.accountId \notin chNext'.accounts[ch.channel])
    ]_vars

\* the second account of the multi-account channel was selected at the
\* account prompt and is about to be disabled
C13_Witness ==
  /\ ChAt("disable")
  /\ ch.accountPrompted
  /\ ch.accountId = "work"

\* C14: a disable keeps the stored accounts of every channel, the plugin
\* entries and the DM policies; it only adds to the accounts of the channel
\* in hand that are marked inactive, and the recomputed status of the channel
\* is still configured.
C14_DisableKeepsSettings ==
  [][ ChAt("disable") =>
        /\ chNext'.accounts = chNext.accounts
        /\ chNext'.entries = chNext.entries
        /\ chNext'.pluginsEnabled = chNext.pluginsEnabled
        /\ chNext'.dm = chNext.dm
        /\ \A c \in Channels \ {ch.channel} :
             chNext'.disabled[c] = chNext.disabled[c]
        /\ chNext.disabled[ch.channel] \subseteq chNext'.disabled[ch.channel]
        /\ chNext'.disabled[ch.channel] \subseteq chNext'.accounts[ch.channel]
        /\ statusByChannel'[ch.channel] = "configured" ]_vars

\* a channel with an account disabled in this call: its settings are still
\* stored and its status is configured
C14_Witness ==
  \E c \in Channels :
    /\ ~(chNext.disabled[c] \subseteq chInput.disabled[c])
    /\ chNext.accounts[c] = chInput.accounts[c]
    /\ statusByChannel[c] = "configured"
    /\ ChAt("select")

\* a step leaves the configuration and the status of the channels as they were
ChUntouched == chNext' = chNext /\ statusByChannel' = statusByChannel

\* C32: a declined delete confirmation leaves the configuration and the
\* status unchanged, as do the action prompt (which also handles a delete
\* the plugin does not support) and the choice of the account; an account
\* disappears from the configuration only in a step that answers yes to the
\* confirmation, and then it is the chosen account of the channel in hand.
C32_DeleteOnlyAfterYes ==
  [][ /\ DeleteConfirm(FALSE) => ChUntouched
      /\ ChAt("configuredAction") => ChUntouched
      /\ ChAt("removalAccount") => ChUntouched
      /\ \A c \in Channels :
           chNext.accounts[c] \ chNext'.accounts[c] # {} =>
             /\ DeleteConfirm(TRUE)
             /\ c = ch.channel
             /\ chNext.accounts[c] \ chNext'.accounts[c] = {ch.accountId} ]_vars

\* one of several accounts of a channel has been deleted in this call and
\* the others are still stored
C32_Witness ==
  \E c \in Channels :
    /\ chInput.accounts[c] \ chNext.accounts[c] # {}
    /\ chNext.accounts[c] # {}
    /\ statusByChannel[c] = "configured"
    /\ ChAt("select")

DeadlineMs == 15000
\* the fixed interval between two probes
PollMs == 400
\* the longest a single probe takes
ProbeTimeoutMs == 1500
\* the time one probe takes: a fast answer or the full timeout
ProbeDurations == {100, ProbeTimeoutMs}

\* the persisted documents a call can find
WaitDocs == {NoDoc, StoredDoc, WithSection(EmptyConfig, "gateway")}

WtInitLocals ==
  [ pc |-> "check", elapsed |-> 0, attempts |-> 0, successes |-> 0,
    lastStart |-> 0, returnedAt |-> 0, result |-> "none" ]

WtFrame == UNCHANGED <<flow, gwVars, wzVars, chVars, exVars, hk, lw, lg>>

\* the loop test: the deadline has not elapsed
WtCheck ==
  /\ wt.pc = "check"
  /\ wt' = IF wt.elapsed < DeadlineMs
             THEN [wt EXCEPT !.pc = "probe"]
             ELSE [wt EXCEPT !.pc = "done", !.result = "false", !.returnedAt = wt.elapsed]
  /\ WtFrame

\* WtProbe of a loop that goes on after a successful probe
WtProbe_IgnoresSuccess ==
  /\ wt.pc = "probe"
  /\ \E d \in ProbeDurations, ok \in BOOLEAN :
       wt' = [wt EXCEPT !.pc = "sleep", !.elapsed = @ + d, !.attempts = @ + 1,
                        !.lastStart = wt.elapsed,
                        !.successes = IF ok THEN @ + 1 ELSE @]
  /\ WtFrame

\* one probe: a success returns true at once
WtProbe ==
  /\ wt.pc = "probe"
  /\ \E d \in ProbeDurations, ok \in BOOLEAN :
       wt' = IF ok
               THEN [wt EXCEPT !.pc = "done", !.elapsed = @ + d, !.attempts = @ + 1,
                               !.lastStart = wt.elapsed, !.successes = @ + 1,
                               !.result = "true", !.returnedAt = wt.elapsed + d]
               ELSE [wt EXCEPT !.pc = "sleep", !.elapsed = @ + d, !.attempts = @ + 1,
                               !.lastStart = wt.elapsed]
  /\ WtFrame

\* the pause between two probes
WtSleep ==
  /\ wt.pc = "sleep"
  /\ wt' = [wt EXCEPT !.pc = "check", !.elapsed = @ + PollMs]
  /\ WtFrame

WaitInit ==
  /\ ExIdle
  /\ flow = "undefined"
  /\ GwIdle
  /\ ChIdle
  /\ opts = [ acceptRisk |-> TRUE, flow |-> UndefinedText, mode |-> "undefined",
              skipChannels |-> FALSE, skipSkills |-> FALSE ]
  /\ snapshot = [ exists |-> FALSE, valid |-> TRUE ]
  /\ persisted \in WaitDocs
  /\ wz = [ pc |-> "idle" ]
  /\ wzLog = <<>>
  /\ wzWrites = <<>>
  /\ wt = WtInitLocals
  /\ hk = [ pc |-> "idle" ]
  /\ lw = [ pc |-> "idle" ]
  /\ lg = [ commands |-> 0 ]

WaitNext ==
  \/ WtCheck
  \/ WtProbe
  \/ WtSleep

\* every step of the loop completes: a probe has a timeout, a pause an end
WaitSpec == WaitInit /\ [][WaitNext]_vars /\ WF_vars(WaitNext)

(***************************************************************************)
(* setupInternalHooks(cfg, runtime, prompter).                             *)
(*                                                                         *)
(* Of cfg the model keeps agents (standing for every key but hooks) and    *)
(* hooks: webhook stands for its keys enabled, path and token, internal    *)
(* for hooks.internal with its enabled flag, its entries and handlers      *)
(* (standing for its other keys). An absent object has present = FALSE.    *)
(***************************************************************************)
HookNames == {"session-memory", "command-logger", "boot-md"}
SKIP == "__skip__"

\* an entry of hooks.internal.entries: none, { enabled: true }, or another
\* object (disabled, or with more settings)
HookEntries == [HookNames -> {"absent", "enabled", "other"}]
NoHookEntries == [h \in HookNames |-> "absent"]

NoInternalHooks ==
  [ present |-> FALSE, enabled |-> FALSE, entries |-> NoHookEntries, handlers |-> FALSE ]
InternalHooks ==
  {NoInternalHooks} \cup
  [ present : {TRUE}, enabled : BOOLEAN, entries : HookEntries, handlers : BOOLEAN ]

NoHooks == [ present |-> FALSE, webhook |-> FALSE, internal |-> NoInternalHooks ]
HooksConfigs ==
  {NoHooks} \cup [ present : {TRUE}, webhook : BOOLEAN, internal : InternalHooks ]

HookInputConfigs == [ agents : BOOLEAN, hooks : HooksConfigs ]

\* entries = { ...cfg.hooks?.internal?.entries }, then entries[name] =
\* { enabled: true } for each selected name
EnabledEntries(entries, selected) ==
  [h \in HookNames |-> IF h \in selected THEN "enabled" ELSE entries[h]]

\* EnableHooks that spreads the previous hooks.internal into the new one
EnableHooks_KeepsInternal(cfg, selected) ==
  [cfg EXCEPT !.hooks =
     [ present |-> TRUE,
       webhook |-> cfg.hooks.webhook,
       internal |-> [ present |-> TRUE,
                      enabled |-> cfg.hooks.internal.enabled,
                      entries |-> EnabledEntries(cfg.hooks.internal.entries, selected),
                      handlers |-> cfg.hooks.internal.handlers ] ]]

\* next = { ...cfg, hooks: { ...cfg.hooks, internal: { enabled: true, entries } } }
EnableHooks(cfg, selected) ==
  [cfg EXCEPT !.hooks =
     [ present |-> TRUE,
       webhook |-> cfg.hooks.webhook,
       internal |-> [ present |-> TRUE,
                      enabled |-> TRUE,
                      entries |-> EnabledEntries(cfg.hooks.internal.entries, selected),
                      handlers |-> FALSE ] ]]

HkInitLocals(cfg, eligible) ==
  [ pc |-> "start", cfg |-> cfg, eligibleHooks |-> eligible, toEnable |-> {},
    asked |-> FALSE, notes |-> <<>>, returned |-> FALSE, result |-> cfg ]

HkFrame == UNCHANGED <<flow, gwVars, wzVars, chVars, exVars, wt, lw, lg>>

\* the introduction, the discovery of the hooks, and the return of cfg when
\* none is eligible
HkStart ==
  /\ hk.pc = "start"
  /\ hk' = IF hk.eligibleHooks = {}
             THEN [hk EXCEPT !.pc = "done", !.returned = TRUE, !.result = hk.cfg,
                             !.notes = << "hooks", "no-hooks" >>]
             ELSE [hk EXCEPT !.pc = "select", !.notes = << "hooks" >>]
  /\ HkFrame

\* the multiselect: the skip entry and every eligible hook
HkSelect ==
  /\ hk.pc = "select"
  /\ \/ hk' = [hk EXCEPT !.pc = "cancelled", !.asked = TRUE]
     \/ \E toEnable \in SUBSET (hk.eligibleHooks \cup {SKIP}) :
          hk' = [hk EXCEPT !.pc = "apply", !.asked = TRUE, !.toEnable = toEnable]
  /\ HkFrame

\* selected that is empty whenever the skip entry was chosen
selected_SkipWins(toEnable) == IF SKIP \in toEnable THEN {} ELSE toEnable

\* selected = toEnable.filter((name) => name !== "__skip__")
selected(toEnable) == toEnable \ {SKIP}

\* nothing selected returns cfg, otherwise the selected hooks are enabled and
\* a note lists them
HkApply ==
  /\ hk.pc = "apply"
  /\ LET sel == selected(hk.toEnable)
     IN hk' = IF sel = {}
                THEN [hk EXCEPT !.pc = "done", !.returned = TRUE, !.result = hk.cfg]
                ELSE [hk EXCEPT !.pc = "done", !.returned = TRUE,
                                !.result = EnableHooks(hk.cfg, sel),
                                !.notes = Append(@, "hooks-configured")]
  /\ HkFrame

HooksInit ==
  /\ ExIdle
  /\ flow = "undefined"
  /\ GwIdle
  /\ WzIdle
  /\ ChIdle
  /\ wt = [ pc |-> "idle" ]
  /\ lw = [ pc |-> "idle" ]
  /\ lg = [ commands |-> 0 ]
  /\ \E cfg \in HookInputConfigs, eligible \in SUBSET HookNames :
       hk = HkInitLocals(cfg, eligible)

HooksNext ==
  \/ HkStart
  \/ HkSelect
  \/ HkApply

HooksSpec == HooksInit /\ [][HooksNext]_vars

(***************************************************************************)
(* applyOnboardingLocalWorkspaceConfig(baseConfig, workspaceDir).          *)
(*                                                                         *)
(* A value of the configuration is a text; "undefined" is an absent key    *)
(* and "mistyped" a value of a type the code does not accept. rest stands  *)
(* for the other keys of an object. An absent object has present = FALSE.  *)
(***************************************************************************)
LangPlugins == {"lang-core", "lang-zh-cn", "lang-en-us", "lang-ja-jp"}

IsString(v) == v \notin {"undefined", "mistyped"}
IsBoolean(v) == v \in {"true", "false"}
IsArray(v) == v \notin {"undefined", "mistyped"}

NoLangConfig ==
  [ present |-> FALSE, defaultLocale |-> "undefined", currentLocale |-> "undefined",
    allowedLocales |-> "undefined", rest |-> FALSE ]
LangConfigs ==
  {NoLangConfig} \cup
  [ present : {TRUE},
    defaultLocale : {"undefined", "en-US", "mistyped"},
    currentLocale : {"undefined", "ja-JP", "mistyped"},
    allowedLocales : {"undefined", "ja-JP,en-US", "mistyped"},
    rest : BOOLEAN ]

NoPluginEntry ==
  [ present |-> FALSE, enabled |-> "undefined", rest |-> FALSE, config |-> NoLangConfig ]
LangCoreEntries ==
  {NoPluginEntry} \cup
  [ present : {TRUE}, enabled : {"undefined", "false", "mistyped"}, rest : {FALSE},
    config : LangConfigs ]
LangPackEntries ==
  { NoPluginEntry,
    [ present |-> TRUE, enabled |-> "false", rest |-> TRUE, config |-> NoLangConfig ],
    [ present |-> TRUE, enabled |-> "mistyped", rest |-> FALSE, config |-> NoLangConfig ],
    [ present |-> TRUE, enabled |-> "undefined", rest |-> FALSE,
      config |-> [ present |-> TRUE, defaultLocale |-> "undefined",
                   currentLocale |-> "undefined", allowedLocales |-> "undefined",
                   rest |-> TRUE ] ] }

\* the entries of plugins.entries under the four language plugins; the
\* zh-cn and ja-jp packs are absent or like the en-us pack
LangEntries ==
  { [p \in LangPlugins |->
       CASE p = "lang-core" -> core
         [] p = "lang-en-us" -> pack
         [] p = "lang-zh-cn" -> IF zh THEN pack ELSE NoPluginEntry
         [] OTHER -> IF ja THEN pack ELSE NoPluginEntry] :
     core \in LangCoreEntries, pack \in LangPackEntries, zh \in BOOLEAN, ja \in BOOLEAN }

WorkspaceDirs == {"/old", "/tmp/workspace"}

\* baseConfig: agents.defaults.workspace, gateway.mode, the language plugin
\* entries, and rest for every other key at any depth
LocalBaseConfigs ==
  [ workspace : {"undefined", "/old"},
    gatewayMode : {"undefined", "remote"},
    rest : BOOLEAN,
    entries : LangEntries ]

mergeLangCoreConfig(existing) ==
  [ present |-> TRUE,
    defaultLocale |-> IF IsString(existing.defaultLocale)
                        THEN existing.defaultLocale ELSE "zh-CN",
    currentLocale |-> IF IsString(existing.currentLocale)
                        THEN existing.currentLocale ELSE "zh-CN",
    allowedLocales |-> IF IsArray(existing.allowedLocales)
                         THEN existing.allowedLocales ELSE "zh-CN,en-US,ja-JP",
    rest |-> existing.rest ]

\* mergePluginEntryDefaults that enables every entry
mergePluginEntryDefaults_Enables(existing, includeLangCoreDefaults) ==
  [ present |-> TRUE,
    enabled |-> "true",
    rest |-> existing.rest,
    config |-> IF includeLangCoreDefaults
                 THEN mergeLangCoreConfig(existing.config) ELSE existing.config ]

mergePluginEntryDefaults(existing, includeLangCoreDefaults) ==
  [ present |-> TRUE,
    enabled |-> IF IsBoolean(existing.enabled) THEN existing.enabled ELSE "true",
    rest |-> existing.rest,
    config |-> IF includeLangCoreDefaults
                 THEN mergeLangCoreConfig(existing.config) ELSE existing.config ]

applyDefaultLanguagePlugins(baseConfig) ==
  [baseConfig EXCEPT !.entries =
     [p \in LangPlugins |-> mergePluginEntryDefaults(baseConfig.entries[p], p = "lang-core")]]

applyOnboardingLocalWorkspaceConfig(baseConfig, workspaceDir) ==
  applyDefaultLanguagePlugins(
    [baseConfig EXCEPT !.workspace = workspaceDir, !.gatewayMode = "local"])

LwFrame == UNCHANGED <<flow, gwVars, wzVars, chVars, exVars, wt, hk, lg>>

\* the call
LwApply ==
  /\ lw.pc = "call"
  /\ lw' = [lw EXCEPT !.pc = "applied",
                      !.once = applyOnboardingLocalWorkspaceConfig(lw.baseConfig, lw.workspaceDir)]
  /\ LwFrame

\* the call repeated on its own result
LwApplyAgain ==
  /\ lw.pc = "applied"
  /\ lw' = [lw EXCEPT !.pc = "done",
                      !.twice = applyOnboardingLocalWorkspaceConfig(lw.once, lw.workspaceDir)]
  /\ LwFrame

LocalConfigInit ==
  /\ ExIdle
  /\ flow = "undefined"
  /\ GwIdle
  /\ WzIdle
  /\ ChIdle
  /\ wt = [ pc |-> "idle" ]
  /\ hk = [ pc |-> "idle" ]
  /\ lg = [ commands |-> 0 ]
  /\ \E baseConfig \in LocalBaseConfigs, workspaceDir \in WorkspaceDirs :
       lw = [ pc |-> "call", baseConfig |-> baseConfig, workspaceDir |-> workspaceDir,
              once |-> baseConfig, twice |-> baseConfig ]

LocalConfigNext ==
  \/ LwApply
  \/ LwApplyAgain

LocalConfigSpec == LocalConfigInit /\ [][LocalConfigNext]_vars

(***************************************************************************)
(* lang-core: the /langs and /lang commands.                               *)
(*                                                                         *)
(* A text is a sequence of words (its words joined by single blanks);      *)
(* <<>> is the empty text and also normalizeLocale's null. Of the          *)
(* configuration the model keeps plugins.entries["lang-core"].config and,  *)
(* as rest, every other key.                                               *)
(***************************************************************************)
FALLBACK_DEFAULT_LOCALE == <<"zh-CN">>
FALLBACK_ALLOWED_LOCALES == {<<"zh-CN">>, <<"en-US">>, <<"ja-JP">>}

\* toLowerCase on the words of the model
ToLowerCase(w) ==
  CASE w = "zh-CN" -> "zh-cn"
    [] w = "en-US" -> "en-us"
    [] w = "EN" -> "en"
    [] w = "ja-JP" -> "ja-jp"
    [] w = "fr-FR" -> "fr-fr"
    [] w = "Status" -> "status"
    [] w = "RESET" -> "reset"
    [] w = "Set" -> "set"
    [] OTHER -> w

LOCALE_ALIASES ==
  [ a \in {"zh", "zh-cn", "zh-hans", "cn", "en", "en-us", "ja", "jp", "ja-jp"} |->
      CASE a \in {"zh", "zh-cn", "zh-hans", "cn"} -> <<"zh-CN">>
        [] a \in {"en", "en-us"} -> <<"en-US">>
        [] OTHER -> <<"ja-JP">> ]

\* normalizeLocale: null for an absent or blank text, the alias's locale for
\* an alias, else the trimmed text
normalizeLocale(value) ==
  IF value = UndefinedText \/ value = <<>> THEN <<>>
  ELSE IF Len(value) = 1 /\ ToLowerCase(value[1]) \in DOMAIN LOCALE_ALIASES
    THEN LOCALE_ALIASES[ToLowerCase(value[1])]
    ELSE value

NoAllowedLocales == [ isArray |-> FALSE, items |-> {} ]

\* readPluginConfig of an entry without a config object
NoLangCoreConfig ==
  [ present |-> FALSE, defaultLocale |-> UndefinedText, currentLocale |-> UndefinedText,
    allowedLocales |-> NoAllowedLocales, rest |-> FALSE ]

\* the lang-core configurations a command can find
LangCoreConfigs ==
  {NoLangCoreConfig} \cup
  [ present : {TRUE},
    defaultLocale : {UndefinedText, <<"en">>},
    currentLocale : {UndefinedText, <<>>, <<"zh-CN">>, <<"ja-JP">>},
    allowedLocales : { NoAllowedLocales,
                       [ isArray |-> TRUE, items |-> {} ],
                       [ isArray |-> TRUE, items |-> {<<"ja">>, <<"en-US">>, <<>>} ] },
    rest : BOOLEAN ]

resolveAllowedLocales(cfg) ==
  LET fromConfig ==
        IF cfg.allowedLocales.isArray
          THEN {normalizeLocale(item) : item \in cfg.allowedLocales.items} \ {<<>>}
          ELSE {}
  IN IF fromConfig # {} THEN fromConfig ELSE FALLBACK_ALLOWED_LOCALES

resolveDefaultLocale(cfg) ==
  IF normalizeLocale(cfg.defaultLocale) # <<>>
    THEN normalizeLocale(cfg.defaultLocale) ELSE FALLBACK_DEFAULT_LOCALE

\* resolveActiveLocale that looks at the default locale only
resolveActiveLocale_DefaultOnly(cfg) == resolveDefaultLocale(cfg)

resolveActiveLocale(cfg) ==
  IF normalizeLocale(cfg.currentLocale) # <<>>
    THEN normalizeLocale(cfg.currentLocale) ELSE resolveDefaultLocale(cfg)

isAllowedLocale(locale, allowedLocales) ==
  allowedLocales = {} \/ locale \in allowedLocales

\* the arguments an operator types after /lang
LangArgs ==
  { <<>>, <<"Status">>, <<"list">>, <<"RESET">>, <<"set">>, <<"Set", "EN">>,
    <<"set", "ja-JP">>, <<"set", "fr-FR">>, <<"zh-CN">>, <<"set", "zh-CN", "extra">> }

\* the arguments that ask for the summary
IsStatusArgs(args) ==
  args = <<>> \/ (Len(args) = 1 /\ ToLowerCase(args[1]) \in {"status", "list"})

IsResetArgs(args) == Len(args) = 1 /\ ToLowerCase(args[1]) = "reset"

\* rawLocale: the words after set, or all of them
rawLocale(args) ==
  IF ToLowerCase(args[1]) = "set" THEN SubSeq(args, 2, Len(args)) ELSE args

\* the number of commands of a run
MaxCommands == 3

NoLocale == <<"none">>

\* the locale each language pack stands for
PackLocale ==
  [ pack \in {"lang-zh-cn", "lang-en-us", "lang-ja-jp"} |->
      CASE pack = "lang-zh-cn" -> "zh-cn"
        [] pack = "lang-en-us" -> "en-us"
        [] OTHER -> "ja-jp" ]

\* resolveActiveLocale of the language packs: currentLocale ?? defaultLocale
\* ?? "zh-CN", trimmed, and "zh-CN" for a blank result
packActiveLocale(cfg) ==
  IF ~cfg.present THEN <<"zh-CN">>
  ELSE LET obj == IF cfg.currentLocale # UndefinedText THEN cfg.currentLocale
                  ELSE IF cfg.defaultLocale # UndefinedText THEN cfg.defaultLocale
                  ELSE <<"zh-CN">>
       IN IF obj = <<>> THEN <<"zh-CN">> ELSE obj

\* the before_prompt_build handler of a pack: TRUE when it returns its
\* prependContext
packPrepends(pack, cfg) ==
  LET active == packActiveLocale(cfg)
  IN Len(active) = 1 /\ ToLowerCase(active[1]) = PackLocale[pack]

\* no prompt built yet
NoPrompt == [ built |-> FALSE, packs |-> {}, active |-> NoLocale ]

LgInitLocals(cfg) ==
  [ cfg |-> cfg, start |-> cfg, commands |-> 0, writes |-> 0, reply |-> "none",
    reported |-> NoLocale, lastAccepted |-> NoLocale, resetSeen |-> FALSE,
    prompt |-> NoPrompt ]

LgFrame == UNCHANGED <<flow, gwVars, wzVars, chVars, exVars, wt, hk, lw>>

LgMore == lg.commands < MaxCommands

\* /langs, and /lang with no argument, status or list: the summary
LgStatus ==
  /\ LgMore
  /\ \E args \in {a \in LangArgs : IsStatusArgs(a)} :
       lg' = [lg EXCEPT !.commands = @ + 1, !.reply = "summary",
                        !.reported = resolveActiveLocale(lg.cfg)]
  /\ LgFrame

\* LgReset that writes the configuration back as it was
LgReset_KeepsCurrent ==
  /\ LgMore
  /\ \E args \in {a \in LangArgs : ~IsStatusArgs(a) /\ IsResetArgs(a)} :
       lg' = [lg EXCEPT !.commands = @ + 1, !.writes = @ + 1, !.reply = "reset",
                        !.cfg.present = TRUE,
                        !.reported = resolveDefaultLocale(lg.cfg),
                        !.lastAccepted = NoLocale, !.resetSeen = TRUE]
  /\ LgFrame

\* /lang reset: the configuration is written without currentLocale
LgReset ==
  /\ LgMore
  /\ \E args \in {a \in LangArgs : ~IsStatusArgs(a) /\ IsResetArgs(a)} :
       lg' = [lg EXCEPT !.commands = @ + 1, !.writes = @ + 1, !.reply = "reset",
                        !.cfg.present = TRUE,
                        !.cfg.currentLocale = UndefinedText,
                        !.reported = resolveDefaultLocale(lg.cfg),
                        !.lastAccepted = NoLocale, !.resetSeen = TRUE]
  /\ LgFrame

\* /lang set <locale> and /lang <locale>: usage without a locale, a refusal
\* for a locale that is not allowed, else the configuration is written with
\* the locale as currentLocale
LgSet ==
  /\ LgMore
  /\ \E args \in {a \in LangArgs : ~IsStatusArgs(a) /\ ~IsResetArgs(a)} :
       LET locale == normalizeLocale(rawLocale(args))
       IN lg' = IF locale = <<>>
                  THEN [lg EXCEPT !.commands = @ + 1, !.reply = "usage"]
                ELSE IF ~isAllowedLocale(locale, resolveAllowedLocales(lg.cfg))
                  THEN [lg EXCEPT !.commands = @ + 1, !.reply = "not-allowed"]
                ELSE [lg EXCEPT !.commands = @ + 1, !.writes = @ + 1, !.reply = "set",
                                !.cfg.present = TRUE,
                                !.cfg.currentLocale = locale,
                                !.reported = locale,
                                !.lastAccepted = locale]
  /\ LgFrame

\* a prompt is built: every pack's handler runs on the configuration as it is
LgPromptBuild ==
  /\ lg' = [lg EXCEPT !.prompt =
             [ built |-> TRUE,
               packs |-> {pack \in DOMAIN PackLocale : packPrepends(pack, lg.cfg)},
               active |-> resolveActiveLocale(lg.cfg) ]]
  /\ LgFrame

LangInit ==
  /\ ExIdle
  /\ flow = "undefined"
  /\ GwIdle
  /\ WzIdle
  /\ ChIdle
  /\ wt = [ pc |-> "idle" ]
  /\ hk = [ pc |-> "idle" ]
  /\ lw = [ pc |-> "idle" ]
  /\ \E cfg \in LangCoreConfigs : lg = LgInitLocals(cfg)

LangNext ==
  \/ LgStatus
  \/ LgReset
  \/ LgSet
  \/ LgPromptBuild

LangSpec == LangInit /\ [][LangNext]_vars

(***************************************************************************)
(* The remote branch of runOnboardingWizard: promptRemoteGatewayConfig,    *)
(* applyWizardMetadata, writeConfigFile and the outro.                     *)
(*                                                                         *)
(* A url is a text whose first element is its scheme. rest, gwRest and     *)
(* remoteRest stand for the other keys of the configuration, of gateway    *)
(* and of gateway.remote.                                                  *)
(***************************************************************************)
DEFAULT_GATEWAY_URL == <<"ws://", "127.0.0.1:18789">>

\* the urls a configuration can hold
StoredUrls == {UndefinedText, <<"wss://", "old">>, <<"http://", "old">>}

\* the configurations the remote branch can start from
RemoteBaseConfigs ==
  [ rest : {"none", "other"},
    gwRest : {"none", "other"},
    gwMode : {"undefined", "local", "remote"},
    remoteUrl : StoredUrls,
    remoteToken : {UndefinedText, <<"s">>},
    remoteRest : {"none", "other"},
    meta : {"none"} ]

\* the answers an operator can type at the url prompt
UrlInputs ==
  { <<>>, <<" ">>, <<"ws://", "a">>, <<" ", "wss://", "b", " ">>, <<"http://", "a">>,
    <<"a", "ws://">> }

\* the answers an operator can type at the token prompt
RemoteTokenInputs == { <<>>, <<" ">>, <<"t">>, <<" ", "t", " ">> }

\* startsWith("ws://") || startsWith("wss://")
StartsWithWs(t) == Len(t) >= 1 /\ t[1] \in {"ws://", "wss://"}

\* the validate of the url prompt
ValidWsUrl(t) == StartsWithWs(Trim(t))

\* the validate of the token prompt: value?.trim() is not empty
ValidRemoteToken(t) == Trim(t) # <<>>

\* ensureWsUrl: the trimmed text, the default url when it is empty
ensureWsUrl(value) == IF Trim(value) = <<>> THEN DEFAULT_GATEWAY_URL ELSE Trim(value)

\* the configuration returned by promptRemoteGatewayConfig
RemoteConfig(cfg, url, token) ==
  [cfg EXCEPT !.gwMode = "remote",
              !.remoteUrl = url,
              !.remoteToken = IF Truthy(token) THEN token ELSE UndefinedText,
              !.remoteRest = "none"]

RmInitLocals(cfg, mode) ==
  [ pc |-> "mode", mode |-> mode, cfg |-> cfg, suggestedUrl |-> UndefinedText,
    url |-> UndefinedText, authChoice |-> "undefined", nextConfig |-> cfg,
    writes |-> <<>>, log |-> <<>> ]

RmFrame == UNCHANGED <<flow, gwVars, wzVars, chVars, fnVars, cu, ap, pg>>

RmLogged(entries) == [rm EXCEPT !.log = @ \o entries]

\* if (mode === "remote"): the remote branch, else the local steps
RmMode ==
  /\ rm.pc = "mode"
  /\ rm' = IF rm.mode = "remote"
             THEN [rm EXCEPT !.pc = "discover",
                             !.suggestedUrl = Coalesce(rm.cfg.remoteUrl, DEFAULT_GATEWAY_URL)]
             ELSE [RmLogged(<< <<"step", "workspace">> >>) EXCEPT !.pc = "local"]
  /\ RmFrame

\* the Bonjour discovery: the confirmation, the search, the choice of a
\* gateway and of the connection method
RmDiscover ==
  /\ rm.pc = "discover"
  /\ \E hasBonjourTool \in BOOLEAN :
       IF ~hasBonjourTool
         THEN rm' = [RmLogged(<< <<"note", "discovery">> >>) EXCEPT !.pc = "url"]
         ELSE \/ rm' = [RmLogged(<< <<"prompt", "discover">> >>) EXCEPT !.pc = "cancelled"]
              \/ rm' = [RmLogged(<< <<"prompt", "discover">> >>) EXCEPT !.pc = "url"]
              \/ \E found \in BOOLEAN :
                   LET searched == RmLogged(<< <<"prompt", "discover">>,
                                               <<"progress", "search">>,
                                               <<"stop", "search">> >>)
                   IN IF ~found
                        THEN rm' = [searched EXCEPT !.pc = "url"]
                        ELSE \/ rm' = [searched EXCEPT
                                         !.pc = "cancelled",
                                         !.log = @ \o << <<"prompt", "gateway">> >>]
                             \/ rm' = [searched EXCEPT
                                         !.pc = "url",
                                         !.log = @ \o << <<"prompt", "gateway">> >>]
                             \/ \E direct \in BOOLEAN :
                                  rm' = [searched EXCEPT
                                           !.pc = "url",
                                           !.log = @ \o << <<"prompt", "gateway">>,
                                                           <<"prompt", "method">> >>,
                                           !.suggestedUrl =
                                              IF direct THEN <<"ws://", "beacon">>
                                                        ELSE DEFAULT_GATEWAY_URL]
  /\ RmFrame

\* the url prompt: the suggestion or a typed text, accepted by its validate
RmUrl ==
  /\ rm.pc = "url"
  /\ \/ rm' = [RmLogged(<< <<"prompt", "url">> >>) EXCEPT !.pc = "cancelled"]
     \/ \E urlInput \in {i \in UrlInputs \cup {rm.suggestedUrl} : ValidWsUrl(i)} :
          rm' = [RmLogged(<< <<"prompt", "url">> >>) EXCEPT
                   !.pc = "auth", !.url = ensureWsUrl(urlInput)]
  /\ RmFrame

\* RmAuth keeping the stored token when no auth is chosen
RmAuth_KeepsToken ==
  /\ rm.pc = "auth"
  /\ \/ rm' = [RmLogged(<< <<"prompt", "auth">> >>) EXCEPT !.pc = "cancelled"]
     \/ rm' = [RmLogged(<< <<"prompt", "auth">> >>) EXCEPT
                 !.pc = "write", !.authChoice = "off",
                 !.nextConfig = RemoteConfig(rm.cfg, rm.url, rm.cfg.remoteToken)]
     \/ rm' = [RmLogged(<< <<"prompt", "auth">>, <<"prompt", "token">> >>) EXCEPT
                 !.pc = "cancelled"]
     \/ \E t \in {i \in RemoteTokenInputs : ValidRemoteToken(i)} :
          rm' = [RmLogged(<< <<"prompt", "auth">>, <<"prompt", "token">> >>) EXCEPT
                   !.pc = "write", !.authChoice = "token",
                   !.nextConfig = RemoteConfig(rm.cfg, rm.url, Trim(t))]
  /\ RmFrame

\* the auth choice and, for token auth, the token prompt; the configuration
\* promptRemoteGatewayConfig returns
RmAuth ==
  /\ rm.pc = "auth"
  /\ \/ rm' = [RmLogged(<< <<"prompt", "auth">> >>) EXCEPT !.pc = "cancelled"]
     \/ rm' = [RmLogged(<< <<"prompt", "auth">> >>) EXCEPT
                 !.pc = "write", !.authChoice = "off",
                 !.nextConfig = RemoteConfig(rm.cfg, rm.url, <<>>)]
     \/ rm' = [RmLogged(<< <<"prompt", "auth">>, <<"prompt", "token">> >>) EXCEPT
                 !.pc = "cancelled"]
     \/ \E t \in {i \in RemoteTokenInputs : ValidRemoteToken(i)} :
          rm' = [RmLogged(<< <<"prompt", "auth">>, <<"prompt", "token">> >>) EXCEPT
                   !.pc = "write", !.authChoice = "token",
                   !.nextConfig = RemoteConfig(rm.cfg, rm.url, Trim(t))]
  /\ RmFrame

\* applyWizardMetadata, writeConfigFile, the outro and the return
RmWrite ==
  /\ rm.pc = "write"
  /\ LET nextConfig == applyWizardMetadata(rm.nextConfig, rm.mode)
     IN rm' = [RmLogged(<< <<"write", "remote">>, <<"outro", "remote">> >>) EXCEPT
                 !.pc = "done", !.nextConfig = nextConfig,
                 !.writes = Append(@, nextConfig)]
  /\ RmFrame

RemoteInit ==
  /\ flow = "undefined"
  /\ GwIdle
  /\ WzIdle
  /\ ChIdle
  /\ FnIdle
  /\ cu = [ pc |-> "idle" ]
  /\ ap = [ pc |-> "idle" ]
  /\ pg = [ pc |-> "idle" ]
  /\ \E cfg \in RemoteBaseConfigs, mode \in {"local", "remote"} :
       rm = RmInitLocals(cfg, mode)

RemoteNext ==
  \/ RmMode
  \/ RmDiscover
  \/ RmUrl
  \/ RmAuth
  \/ RmWrite

RemoteSpec == RemoteInit /\ [][RemoteNext]_vars

(***************************************************************************)
(* applyCustomApiConfig(params).                                           *)
(*                                                                         *)
(* A provider id is a pair <<name, k>>: <<"x", 1>> is the id x and         *)
(* <<"x", 3>> the id x-3. An absent provider has present = FALSE; rest     *)
(* stands for the other keys of a provider entry and of the configuration. *)
(***************************************************************************)
MaxSuffix == 3

ProviderNames == {"x", "y"}
ProviderIds == ProviderNames \X (1..(MaxSuffix + 2))

BaseUrls == {"A", "B"}

NoProvider ==
  [ present |-> FALSE, baseUrl |-> "", api |-> "none", apiKey |-> "undefined",
    models |-> <<>>, rest |-> "none" ]

\* the entries the provider x can hold before the call
FirstProviders ==
  {NoProvider} \cup
  [ present : {TRUE}, baseUrl : {"", "A", "B"}, api : {"openai-completions"},
    apiKey : {"undefined", "k"}, models : {<<>>, <<"m">>, <<"n">>}, rest : {"other"} ]

\* the entries the providers x-2 .. and y can hold before the call
OtherProviders ==
  {NoProvider} \cup
  [ present : {TRUE}, baseUrl : BaseUrls, api : {"anthropic-messages"},
    apiKey : {"k"}, models : {<<"n">>}, rest : {"other"} ]

\* the configurations applyCustomApiConfig is called with
CustomBaseConfigs ==
  { [ providers |-> [ id \in ProviderIds |->
                        IF id = <<"x", 1>> THEN first
                        ELSE IF id[1] = "x" /\ id[2] \in 2..MaxSuffix THEN others[id[2]]
                        ELSE IF id = <<"y", 1>> THEN y
                        ELSE NoProvider ],
      mode |-> mode, primary |-> "undefined", aliases |-> {}, rest |-> "other" ] :
    first \in FirstProviders,
    others \in [2..MaxSuffix -> OtherProviders],
    y \in {NoProvider, CHOOSE e \in OtherProviders : e.present /\ e.baseUrl = "A"},
    mode \in {"undefined", "replace"} }

\* the parameters of the call: a valid base URL, a model id, an explicit
\* provider id
CustomApiParams ==
  [ baseUrl : BaseUrls, modelId : {"m"}, compatibility : {"openai", "anthropic"},
    apiKey : {"undefined", "", "k2"}, providerId : {"x"}, alias : {"", "al"} ]

\* truthiness of an optional api key
HasKey(k) == k \notin {"undefined", ""}

\* resolveProviderApi
resolveProviderApi(compatibility) ==
  IF compatibility = "anthropic" THEN "anthropic-messages" ELSE "openai-completions"

\* modelKey(provider, model)
modelKey(providerId, modelId) == <<providerId, modelId>>

\* resolveUniqueEndpointId: the id itself unless it holds another base URL,
\* else the id with the first suffix from 2 up that names no provider
resolveUniqueEndpointId(requestedId, baseUrl, providers) ==
  LET existing == providers[<<requestedId, 1>>]
      suffix == CHOOSE k \in 2..(MaxSuffix + 2) :
                  /\ ~providers[<<requestedId, k>>].present
                  /\ \A j \in 2..(k - 1) : providers[<<requestedId, j>>].present
  IN IF ~existing.present \/ existing.baseUrl = "" \/ existing.baseUrl = baseUrl
       THEN [ providerId |-> <<requestedId, 1>>, renamed |-> FALSE ]
       ELSE [ providerId |-> <<requestedId, suffix>>, renamed |-> TRUE ]

\* resolveCustomProviderId with an explicit provider id
resolveCustomProviderId(config, baseUrl, providerId) ==
  LET r == resolveUniqueEndpointId(providerId, baseUrl, config.providers)
  IN [ providerId |-> r.providerId,
       providerIdRenamedFrom |-> IF r.renamed THEN providerId ELSE "undefined" ]

\* some model of the list has the id
HasModel(models, modelId) == \E i \in DOMAIN models : models[i] = modelId

\* applyCustomApiConfig overwriting the entry of the requested id
applyCustomApiConfig_Overwrites(config, p) ==
  LET providerId == <<p.providerId, 1>>
      existingProvider == config.providers[providerId]
      modelRef == modelKey(providerId, p.modelId)
  IN [ config |->
         [config EXCEPT
            !.mode = IF @ = "undefined" THEN "merge" ELSE @,
            !.providers[providerId] =
               [ present |-> TRUE, baseUrl |-> p.baseUrl,
                 api |-> resolveProviderApi(p.compatibility),
                 apiKey |-> IF HasKey(p.apiKey) THEN p.apiKey
                            ELSE IF HasKey(existingProvider.apiKey)
                              THEN existingProvider.apiKey ELSE "undefined",
                 models |-> IF HasModel(existingProvider.models, p.modelId)
                              THEN existingProvider.models
                              ELSE Append(existingProvider.models, p.modelId),
                 rest |-> existingProvider.rest ],
            !.primary = modelRef,
            !.aliases = IF p.alias = "" THEN @
                        ELSE {a \in @ : a[1] # modelRef} \cup {<<modelRef, p.alias>>}],
       providerId |-> providerId,
       modelId |-> p.modelId,
       providerIdRenamedFrom |-> "undefined" ]

\* applyCustomApiConfig: the provider entry merged under the resolved id,
\* the primary model and the alias
applyCustomApiConfig(config, p) ==
  LET providerIdResult == resolveCustomProviderId(config, p.baseUrl, p.providerId)
      providerId == providerIdResult.providerId
      existingProvider == config.providers[providerId]
      existingModels == existingProvider.models
      modelRef == modelKey(providerId, p.modelId)
      mergedModels == IF HasModel(existingModels, p.modelId) THEN existingModels
                      ELSE Append(existingModels, p.modelId)
      normalizedApiKey == IF HasKey(p.apiKey) THEN p.apiKey
                          ELSE IF HasKey(existingProvider.apiKey)
                            THEN existingProvider.apiKey ELSE "undefined"
  IN [ config |->
         [config EXCEPT
            !.mode = IF @ = "undefined" THEN "merge" ELSE @,
            !.providers[providerId] =
               [ present |-> TRUE, baseUrl |-> p.baseUrl,
                 api |-> resolveProviderApi(p.compatibility),
                 apiKey |-> normalizedApiKey,
                 models |-> mergedModels,
                 rest |-> existingProvider.rest ],
            !.primary = modelRef,
            !.aliases = IF p.alias = "" THEN @
                        ELSE {a \in @ : a[1] # modelRef} \cup {<<modelRef, p.alias>>}],
       providerId |-> providerId,
       modelId |-> p.modelId,
       providerIdRenamedFrom |-> providerIdResult.providerIdRenamedFrom ]

ApFrame == UNCHANGED <<flow, gwVars, wzVars, chVars, fnVars, rm, cu, pg>>

\* the call
ApApply ==
  /\ ap.pc = "call"
  /\ ap' = [ap EXCEPT !.pc = "again", !.once = applyCustomApiConfig(ap.config, ap.params)]
  /\ ApFrame

\* the call repeated on its own result with the same parameters
ApApplyAgain ==
  /\ ap.pc = "again"
  /\ ap' = [ap EXCEPT !.pc = "done",
                      !.twice = applyCustomApiConfig(ap.once.config, ap.params)]
  /\ ApFrame

NoCustomResult(config) ==
  [ config |-> config, providerId |-> <<"none", 1>>, modelId |-> "none",
    providerIdRenamedFrom |-> "undefined" ]

ApplyInit ==
  /\ flow = "undefined"
  /\ GwIdle
  /\ WzIdle
  /\ ChIdle
  /\ FnIdle
  /\ rm = [ pc |-> "idle" ]
  /\ cu = [ pc |-> "idle" ]
  /\ pg = [ pc |-> "idle" ]
  /\ \E config \in CustomBaseConfigs, params \in CustomApiParams :
       ap = [ pc |-> "call", config |-> config, params |-> params,
              once |-> NoCustomResult(config), twice |-> NoCustomResult(config) ]

ApplyNext ==
  \/ ApApply
  \/ ApApplyAgain

ApplySpec == ApplyInit /\ [][ApplyNext]_vars

(***************************************************************************)
(* promptCustomApiConfig: the prompts, the detection and verification      *)
(* loop, and the call of applyCustomApiConfig.                             *)
(*                                                                         *)
(* The endpoint answers every request with ok or not ok; a request that    *)
(* fails to connect is not ok (requestVerification catches the error).     *)
(***************************************************************************)
MaxRetries == 2

ApiKeyInputs == {"", "k2"}
ModelIds == {"m", "n"}
CompatibilityChoices == {"openai", "anthropic", "unknown"}

\* the configurations promptCustomApiConfig is called with
CustomPromptConfigs ==
  { c \in CustomBaseConfigs :
      /\ c.mode = "undefined"
      /\ \A id \in ProviderIds \ {<<"x", 1>>} : ~c.providers[id].present
      /\ c.providers[<<"x", 1>>] \in
           { NoProvider,
             [ present |-> TRUE, baseUrl |-> "A", api |-> "openai-completions",
               apiKey |-> "k", models |-> <<"m">>, rest |-> "other" ] } }

CuInitLocals(config) ==
  [ pc |-> "start", config |-> config, compatibilityChoice |-> "undefined",
    compatibility |-> "null", baseUrl |-> "undefined", apiKey |-> "undefined",
    modelId |-> "undefined", round |-> 0, requests |-> <<>>, log |-> <<>>,
    applied |-> FALSE, result |-> NoCustomResult(config),
    appliedCompatibility |-> "undefined" ]

CuFrame == UNCHANGED <<flow, gwVars, wzVars, chVars, fnVars, rm, ap, pg>>

CuLogged(entries) == [cu EXCEPT !.log = @ \o entries]

\* the request a verification function sends with the values in hand
CuRequest(kind, ok) ==
  [ round |-> cu.round, kind |-> kind, baseUrl |-> cu.baseUrl, apiKey |-> cu.apiKey,
    modelId |-> cu.modelId, ok |-> ok ]

\* the prompts before the loop: base URL and key, compatibility, model id
CuStart ==
  /\ cu.pc = "start"
  /\ \/ \E at \in {"baseUrl", "compatibility", "modelId"} :
          cu' = [CuLogged(<< <<"prompt", at>> >>) EXCEPT !.pc = "cancelled"]
     \/ \E baseUrl \in BaseUrls, apiKey \in ApiKeyInputs,
           choice \in CompatibilityChoices, modelId \in ModelIds :
          cu' = [CuLogged(<< <<"prompt", "baseUrl">>, <<"prompt", "apiKey">>,
                             <<"prompt", "compatibility">>, <<"prompt", "modelId">> >>)
                   EXCEPT !.pc = "loop", !.baseUrl = baseUrl, !.apiKey = apiKey,
                          !.compatibilityChoice = choice, !.modelId = modelId,
                          !.compatibility = IF choice = "unknown" THEN "null" ELSE choice]
  /\ CuFrame

\* CuDetect sending both requests in every round
CuDetect_ProbesBoth ==
  /\ cu.pc = "loop"
  /\ cu.compatibility = "null"
  /\ \E openaiOk \in BOOLEAN, anthropicOk \in BOOLEAN :
       cu' = [cu EXCEPT
                !.requests = @ \o << CuRequest("openai", openaiOk),
                                     CuRequest("anthropic", anthropicOk) >>,
                !.log = @ \o << <<"progress", "detect">>, <<"stop", "detect">> >>
                          \o (IF openaiOk \/ anthropicOk THEN <<>>
                              ELSE << <<"note", "detect">> >>),
                !.compatibility = IF openaiOk THEN "openai"
                                  ELSE IF anthropicOk THEN "anthropic" ELSE "null",
                !.pc = IF openaiOk \/ anthropicOk THEN "endpointId" ELSE "retry"]
  /\ CuFrame

\* a detection round: the OpenAI-style request, then the Anthropic-style
\* request when the first was not ok; a success leaves the loop
CuDetect ==
  /\ cu.pc = "loop"
  /\ cu.compatibility = "null"
  /\ \/ cu' = [cu EXCEPT
                 !.requests = Append(@, CuRequest("openai", TRUE)),
                 !.log = @ \o << <<"progress", "detect">>, <<"stop", "detect">> >>,
                 !.compatibility = "openai",
                 !.pc = "endpointId"]
     \/ cu' = [cu EXCEPT
                 !.requests = @ \o << CuRequest("openai", FALSE),
                                      CuRequest("anthropic", TRUE) >>,
                 !.log = @ \o << <<"progress", "detect">>, <<"stop", "detect">> >>,
                 !.compatibility = "anthropic",
                 !.pc = "endpointId"]
     \/ cu' = [cu EXCEPT
                 !.requests = @ \o << CuRequest("openai", FALSE),
                                      CuRequest("anthropic", FALSE) >>,
                 !.log = @ \o << <<"progress", "detect">>, <<"stop", "detect">>,
                                 <<"note", "detect">> >>,
                 !.pc = "retry"]
  /\ CuFrame

\* CuVerify leaving the loop whatever the answer
CuVerify_AcceptsFailure ==
  /\ cu.pc = "loop"
  /\ cu.compatibility # "null"
  /\ \E ok \in BOOLEAN :
       cu' = [cu EXCEPT
                !.requests = Append(@, CuRequest(cu.compatibility, ok)),
                !.log = @ \o << <<"progress", "verify">>, <<"stop", "verify">> >>,
                !.pc = "endpointId"]
  /\ CuFrame

\* a verification round with the chosen compatibility
CuVerify ==
  /\ cu.pc = "loop"
  /\ cu.compatibility # "null"
  /\ \E ok \in BOOLEAN :
       cu' = [cu EXCEPT
                !.requests = Append(@, CuRequest(cu.compatibility, ok)),
                !.log = @ \o << <<"progress", "verify">>, <<"stop", "verify">> >>,
                !.pc = IF ok THEN "endpointId" ELSE "retry"]
  /\ CuFrame

\* what to change, the changed values, and the next round
CuRetry ==
  /\ cu.pc = "retry"
  /\ \/ cu' = [CuLogged(<< <<"prompt", "retry">> >>) EXCEPT !.pc = "cancelled"]
     \/ /\ cu.round < MaxRetries
        /\ \E retryChoice \in {"baseUrl", "model", "both"},
              baseUrl \in BaseUrls, apiKey \in ApiKeyInputs, modelId \in ModelIds :
             LET changesUrl == retryChoice \in {"baseUrl", "both"}
                 changesModel == retryChoice \in {"model", "both"}
             IN cu' = [cu EXCEPT
                         !.log = @ \o << <<"prompt", "retry">> >>
                                   \o (IF changesUrl
                                         THEN << <<"prompt", "baseUrl">>, <<"prompt", "apiKey">> >>
                                         ELSE <<>>)
                                   \o (IF changesModel
                                         THEN << <<"prompt", "modelId">> >> ELSE <<>>),
                         !.baseUrl = IF changesUrl THEN baseUrl ELSE @,
                         !.apiKey = IF changesUrl THEN apiKey ELSE @,
                         !.modelId = IF changesModel THEN modelId ELSE @,
                         !.compatibility =
                            IF cu.compatibilityChoice = "unknown" THEN "null" ELSE @,
                         !.round = @ + 1,
                         !.pc = "loop"]
  /\ CuFrame

\* the endpoint id and the alias, and applyCustomApiConfig
CuApply ==
  /\ cu.pc = "endpointId"
  /\ \/ \E at \in {"endpointId", "alias"} :
          cu' = [CuLogged(<< <<"prompt", at>> >>) EXCEPT !.pc = "cancelled"]
     \/ \E alias \in {"", "al"} :
          LET resolvedCompatibility ==
                IF cu.compatibility = "null" THEN "openai" ELSE cu.compatibility
              result ==
                applyCustomApiConfig(cu.config,
                  [ baseUrl |-> cu.baseUrl, modelId |-> cu.modelId,
                    compatibility |-> resolvedCompatibility, apiKey |-> cu.apiKey,
                    providerId |-> "x", alias |-> alias ])
          IN cu' = [cu EXCEPT
                      !.log = @ \o << <<"prompt", "endpointId">>, <<"prompt", "alias">> >>
                                \o (IF result.providerIdRenamedFrom # "undefined"
                                      THEN << <<"note", "renamed">> >> ELSE <<>>),
                      !.applied = TRUE,
                      !.result = result,
                      !.appliedCompatibility = resolvedCompatibility,
                      !.pc = "done"]
  /\ CuFrame

CustomInit ==
  /\ flow = "undefined"
  /\ GwIdle
  /\ WzIdle
  /\ ChIdle
  /\ FnIdle
  /\ rm = [ pc |-> "idle" ]
  /\ ap = [ pc |-> "idle" ]
  /\ pg = [ pc |-> "idle" ]
  /\ \E config \in CustomPromptConfigs : cu = CuInitLocals(config)

CustomNext ==
  \/ CuStart
  \/ CuDetect
  \/ CuVerify
  \/ CuRetry
  \/ CuApply

CustomSpec == CustomInit /\ [][CustomNext]_vars

(***************************************************************************)
(* The progress indicators of the wizard. Each action is one place where   *)
(* prompter.progress is called: the indicator is started, the wrapped      *)
(* operation ends well, fails or raises, and the code around it stops the  *)
(* indicator or not. A run passes through at most MaxSteps such places.    *)
(***************************************************************************)
MaxSteps == 3

\* how a wrapped operation can end
Outcomes == {"ok", "fails", "raises"}

PgFrame == UNCHANGED <<flow, gwVars, wzVars, chVars, fnVars, rm, cu, ap>>

PgReady == pg.pc = "next" /\ pg.steps < MaxSteps

\* progress, the awaited operation, stop: a raise passes the stop by
Unguarded(site, outcome) ==
  IF outcome = "raises"
    THEN [pg EXCEPT !.pc = "raised", !.steps = @ + 1,
                    !.log = @ \o << <<"progress", site>>, <<"raise", site>> >>]
    ELSE [pg EXCEPT !.steps = @ + 1,
                    !.log = @ \o << <<"progress", site>>, <<"stop", site>> >>]

\* withWizardProgress: try { work } finally { stop }; the raise goes on
withWizardProgress(site, outcome) ==
  IF outcome = "raises"
    THEN [pg EXCEPT !.pc = "raised", !.steps = @ + 1,
                    !.log = @ \o << <<"progress", site>>, <<"stop", site>>,
                                    <<"raise", site>> >>]
    ELSE [pg EXCEPT !.steps = @ + 1,
                    !.log = @ \o << <<"progress", site>>, <<"stop", site>> >>]

\* promptRemoteGatewayConfig: the search for gateways
PgDiscovery ==
  /\ PgReady
  /\ \E outcome \in Outcomes : pg' = Unguarded("discovery", outcome)
  /\ PgFrame

\* promptCustomApiConfig: the detection; a request that raises is a failed one
PgDetect ==
  /\ PgReady
  /\ \E outcome \in Outcomes :
       pg' = Unguarded("detect", IF outcome = "raises" THEN "fails" ELSE outcome)
  /\ PgFrame

\* promptCustomApiConfig: the verification
PgVerify ==
  /\ PgReady
  /\ \E outcome \in Outcomes :
       pg' = Unguarded("verify", IF outcome = "raises" THEN "fails" ELSE outcome)
  /\ PgFrame

\* setupSkills: the install of one skill
PgSkillInstall ==
  /\ PgReady
  /\ \E outcome \in Outcomes : pg' = Unguarded("skill", outcome)
  /\ PgFrame

\* finalizeOnboardingWizard: restart of the gateway service
PgRestart ==
  /\ PgReady
  /\ \E outcome \in {"ok", "raises"} : pg' = withWizardProgress("restart", outcome)
  /\ PgFrame

\* finalizeOnboardingWizard: uninstall of the gateway service
PgUninstall ==
  /\ PgReady
  /\ \E outcome \in {"ok", "raises"} : pg' = withWizardProgress("uninstall", outcome)
  /\ PgFrame

\* finalizeOnboardingWizard: install of the gateway service, with the raise
\* caught, the indicator stopped in the finally block and the failure noted
PgInstall ==
  /\ PgReady
  /\ \E outcome \in {"ok", "raises"} :
       pg' = [pg EXCEPT !.steps = @ + 1,
                        !.log = @ \o << <<"progress", "install">>, <<"stop", "install">> >>
                                  \o (IF outcome = "raises"
                                        THEN << <<"note", "install">> >> ELSE <<>>)]
  /\ PgFrame

\* the enclosing function returns
PgReturn ==
  /\ pg.pc = "next"
  /\ pg' = [pg EXCEPT !.pc = "done"]
  /\ PgFrame

ProgressInit ==
  /\ flow = "undefined"
  /\ GwIdle
  /\ WzIdle
  /\ ChIdle
  /\ FnIdle
  /\ rm = [ pc |-> "idle" ]
  /\ cu = [ pc |-> "idle" ]
  /\ ap = [ pc |-> "idle" ]
  /\ pg = [ pc |-> "next", steps |-> 0, log |-> <<>> ]

ProgressNext ==
  \/ PgDiscovery
  \/ PgDetect
  \/ PgVerify
  \/ PgSkillInstall
  \/ PgRestart
  \/ PgUninstall
  \/ PgInstall
  \/ PgReturn

ProgressSpec == ProgressInit /\ [][ProgressNext]_vars

(***************************************************************************)
(* Properties of configureGatewayForOnboarding (GatewaySpec)               *)
(***************************************************************************)
GwReturned == gwSettings.returned

\* C1: whenever the call has returned after collecting tailscaleMode serve or
\* funnel and a bind other than loopback, the returned settings have
\* bind = loopback and no customBindHost.
C1_TailscaleForcesLoopback ==
  (GwReturned /\ gw.tailscaleMode \in {"serve", "funnel"} /\ gw.collectedBind # "loopback")
    => (gwSettings.bind = "loopback" /\ gwSettings.customBindHost = UndefinedText)

\* C1 witness: a call returned with tailscale on and a custom bind with a host
\* collected.
C1_Witness ==
  /\ GwReturned
  /\ gw.tailscaleMode = "serve"
  /\ gw.collectedBind = "custom"
  /\ gwSettings.bind = "loopback"
  /\ "customHost" \in {gwPrompts[i] : i \in DOMAIN gwPrompts}

\* C2: whenever the call has returned with tailscaleMode funnel, the returned
\* settings and the returned gateway.auth.mode say password.
C2_FunnelForcesPassword ==
  (GwReturned /\ gw.tailscaleMode = "funnel")
    => (gwSettings.authMode = "password" /\ nextGateway.authMode = "password")

\* C2 witness: a call returned with funnel after token auth was collected.
C2_Witness ==
  /\ GwReturned
  /\ gw.tailscaleMode = "funnel"
  /\ gw.collectedAuthMode = "token"
  /\ baseGateway.authMode = "token"
  /\ gwSettings.authMode = "password"

\* C3: whenever the call has returned settings with authMode token, both
\* settings.gatewayToken and the returned gateway.auth.token are non-empty.
C3_TokenNonEmpty ==
  (GwReturned /\ gwSettings.authMode = "token")
    => (NonEmptyText(gwSettings.gatewayToken) /\ NonEmptyText(nextGateway.token)
          /\ nextGateway.token = gwSettings.gatewayToken)

\* the texts a returned password can come from: the stored password or a
\* validated answer, trimmed
PasswordSources ==
  {Trim(t) : t \in ({baseGateway.password} \ {UndefinedText})
                     \cup {i \in PasswordInputs : validateGatewayPasswordInput(i)}}

\* C4: whenever the call has returned with authMode password, the returned
\* gateway.auth.password is a non-empty text taken from the stored
\* configuration or from a validated answer, and the password prompt was
\* issued whenever no stored password was reused.
C4_PasswordNonEmpty ==
  (GwReturned /\ gwSettings.authMode = "password")
    => /\ NonEmptyText(nextGateway.password)
       /\ nextGateway.password \in PasswordSources
       /\ (~(flow = "quickstart" /\ Truthy(baseGateway.password))
             => "password" \in {gwPrompts[i] : i \in DOMAIN gwPrompts})

\* C17: a quickstart call on a configuration without gateway settings asks
\* nothing and notes nothing, and returns the default port, bind loopback
\* without a custom host, token auth with the generated non-empty token,
\* tailscale off and no reset on exit; the written gateway section agrees.
C17_QuickstartDefaults ==
  (flow = "quickstart" /\ baseGateway = EmptyGateway) =>
    /\ gwPrompts = <<>>
    /\ gwNotes = <<>>
    /\ GwReturned =>
         /\ gwSettings.port = DEFAULT_GATEWAY_PORT
         /\ gwSettings.bind = "loopback"
         /\ gwSettings.customBindHost = UndefinedText
         /\ gwSettings.authMode = "token"
         /\ gwSettings.gatewayToken = randomToken
         /\ NonEmptyText(gwSettings.gatewayToken)
         /\ gwSettings.tailscaleMode = "off"
         /\ gwSettings.tailscaleResetOnExit = FALSE
         /\ nextGateway.port = DEFAULT_GATEWAY_PORT
         /\ nextGateway.bind = "loopback"
         /\ nextGateway.authMode = "token"
         /\ nextGateway.token = randomToken

\* a quickstart call without stored gateway settings has returned
C17_Witness ==
  /\ flow = "quickstart"
  /\ baseGateway = EmptyGateway
  /\ ~quickstartGateway.hasExisting
  /\ GwReturned

\* the positions of configureGatewayForOnboarding after the bind fixup, after
\* the auth fixup, and after the token resolution
GwAfterFixBind ==
  {"fixAuth", "token", "authConfig", "build", "denyCommands", "return", "done"}
GwAfterFixAuth == GwAfterFixBind \ {"fixAuth"}
GwAfterToken == GwAfterFixAuth \ {"token"}

GwNoted(n) == \E i \in DOMAIN gwNotes : gwNotes[i] = n
GwAsked(p) == \E i \in DOMAIN gwPrompts : gwPrompts[i] = p

\* C18: the bind fixup and its notice come first, the auth fixup and its
\* notice second, the token and password only afterwards and on the fixed
\* auth mode; with funnel no token is generated or asked for; the returned
\* bind and auth mode are functions of the collected answers.
C18_FixupOrder ==
  /\ gw.pc \in GwAfterFixBind =>
       /\ gw.tailscaleMode # "off" => gw.bind = "loopback"
       /\ GwNoted("tailscale-requires-loopback") <=>
            (gw.tailscaleMode # "off" /\ gw.collectedBind # "loopback")
  /\ (gw.pc \notin GwAfterFixBind /\ gw.pc # "idle") =>
       (~GwNoted("tailscale-requires-loopback") /\ ~GwNoted("funnel-requires-password"))
  /\ gw.pc \in GwAfterFixAuth =>
       /\ gw.tailscaleMode = "funnel" => gw.authMode = "password"
       /\ GwNoted("funnel-requires-password") <=>
            (gw.tailscaleMode = "funnel" /\ gw.collectedAuthMode # "password")
  /\ (gw.pc \notin GwAfterFixAuth /\ gw.pc # "idle") =>
       /\ ~GwNoted("funnel-requires-password")
       /\ gw.gatewayToken = UndefinedText
       /\ ~GwAsked("token")
       /\ ~GwAsked("password")
  /\ \A i, j \in DOMAIN gwNotes :
       (gwNotes[i] = "tailscale-requires-loopback"
          /\ gwNotes[j] = "funnel-requires-password") => i < j
  /\ gw.pc \in GwAfterToken =>
       /\ GwAsked("token") => gw.authMode = "token"
       /\ gw.gatewayToken # UndefinedText => gw.authMode = "token"
       /\ gw.tailscaleMode = "funnel" =>
            (gw.gatewayToken = UndefinedText /\ ~GwAsked("token"))
  /\ GwReturned =>
       /\ gwSettings.bind =
            (IF gw.tailscaleMode # "off" /\ gw.collectedBind # "loopback"
               THEN "loopback" ELSE gw.collectedBind)
       /\ gwSettings.authMode =
            (IF gw.tailscaleMode = "funnel" /\ gw.collectedAuthMode # "password"
               THEN "password" ELSE gw.collectedAuthMode)
       /\ gwSettings.port = gw.port
       /\ gwSettings.tailscaleMode = gw.tailscaleMode
       /\ GwAsked("password") => gwSettings.authMode = "password"

\* funnel with bind lan and token auth collected: both notices, in order,
\* and no token
C18_Witness ==
  /\ GwReturned
  /\ gw.tailscaleMode = "funnel"
  /\ gw.collectedBind = "lan"
  /\ gw.collectedAuthMode = "token"
  /\ GwNoted("tailscale-requires-loopback")
  /\ GwNoted("funnel-requires-password")
  /\ gwSettings.gatewayToken = UndefinedText
  /\ gwSettings.authMode = "password"

\* C19: in advanced flow the returned port, and the port written to the
\* configuration, is an integer of the valid port range.
C19_PortInRange ==
  (GwReturned /\ flow = "advanced") =>
    /\ gwSettings.port \in 1..65535
    /\ nextGateway.port \in 1..65535

\* C20: the returned settings carry a customBindHost exactly when bind is
\* custom; the host of a custom bind is the stored one when quickstart
\* reuses it, and otherwise the trimmed answer of the validated prompt.
C20_CustomHostIffCustomBind ==
  GwReturned =>
    /\ NonEmptyText(gwSettings.customBindHost) <=> gwSettings.bind = "custom"
    /\ gwSettings.bind # "custom" => gwSettings.customBindHost = UndefinedText
    /\ gwSettings.bind = "custom" =>
         IF flow = "quickstart" /\ Truthy(baseGateway.customBindHost)
           THEN /\ gwSettings.customBindHost = baseGateway.customBindHost
                /\ ~GwAsked("customHost")
           ELSE /\ GwAsked("customHost")
                /\ validateIPv4AddressInput(gwSettings.customBindHost)
                /\ Trim(gwSettings.customBindHost) = gwSettings.customBindHost

\* quickstart with a stored custom bind and no stored host: the host is asked
\* for and returned
C20_Witness ==
  /\ GwReturned
  /\ flow = "quickstart"
  /\ ~Truthy(baseGateway.customBindHost)
  /\ gwSettings.bind = "custom"
  /\ GwAsked("customHost")
  /\ gwSettings.customBindHost = <<"i">>

(***************************************************************************)
(* Properties of waitForGatewayReachable (WaitSpec)                        *)
(***************************************************************************)
\* what holds during and after a call: a probe starts only before the
\* deadline; the call goes on only while no probe has succeeded; it returns
\* true with the first success, at the end of that probe, and false only
\* when the deadline has elapsed without a success
WtSafe ==
  /\ wt.attempts > 0 => wt.lastStart < DeadlineMs
  /\ wt.pc # "done" => (wt.successes = 0 /\ wt.result = "none")
  /\ wt.pc = "done" =>
       /\ wt.result \in {"true", "false"}
       /\ wt.returnedAt = wt.elapsed
       /\ wt.result = "true" <=> wt.successes = 1
       /\ wt.result = "false" => (wt.successes = 0 /\ wt.elapsed >= DeadlineMs)
       /\ wt.elapsed < DeadlineMs + ProbeTimeoutMs + PollMs
  /\ persisted \in WaitDocs
  /\ wzWrites = <<>>

\* C22: waitForGatewayReachable returns true as soon as one probe succeeds
\* and false once the deadline has elapsed without a success; it always
\* returns, and the persisted document is never written.
C22_WaitReturns ==
  /\ []WtSafe
  /\ [][persisted' = persisted]_vars
  /\ <>(wt.pc = "done")

\* C22 witness: the call returned false after the deadline elapsed over
\* several failed probes
C22_Witness ==
  /\ wt.pc = "done"
  /\ wt.result = "false"
  /\ wt.attempts > 2
  /\ wt.elapsed >= DeadlineMs

(***************************************************************************)
(* Properties of setupInternalHooks (HooksSpec)                            *)
(***************************************************************************)
HkSelected == hk.toEnable \ {SKIP}

\* C23: with a non-empty set of selected hooks the returned configuration
\* has hooks.internal.enabled = true and the entry { enabled: true } for
\* every selected hook, keeps every other entry, and keeps the other keys of
\* hooks and of the configuration.
C23_SelectedHooksEnabled ==
  (hk.returned /\ HkSelected # {}) =>
    /\ hk.result.hooks.present
    /\ hk.result.hooks.internal.present
    /\ hk.result.hooks.internal.enabled
    /\ \A h \in HkSelected : hk.result.hooks.internal.entries[h] = "enabled"
    /\ \A h \in HookNames \ HkSelected :
         hk.result.hooks.internal.entries[h] = hk.cfg.hooks.internal.entries[h]
    /\ hk.result.hooks.webhook = hk.cfg.hooks.webhook
    /\ hk.result.agents = hk.cfg.agents
    /\ HkSelected \subseteq hk.eligibleHooks

\* C23 witness: a hook enabled next to an entry that was there before, in a
\* configuration whose hooks.internal was disabled
C23_Witness ==
  /\ hk.returned
  /\ HkSelected = {"session-memory"}
  /\ hk.cfg.hooks.webhook
  /\ hk.cfg.hooks.internal.present
  /\ ~hk.cfg.hooks.internal.enabled
  /\ hk.cfg.hooks.internal.entries["boot-md"] = "other"
  /\ hk.result.hooks.internal.entries["boot-md"] = "other"
  /\ hk.result.hooks.internal.entries["session-memory"] = "enabled"

\* C24: cfg is returned as it is when no hook is eligible, without the
\* multiselect, and when the selection holds no hook name; the skip entry
\* selected together with hook names does not keep them from being enabled.
C24_SkipReturnsInput ==
  /\ hk.eligibleHooks = {} => ~hk.asked
  /\ (hk.pc # "start" /\ hk.eligibleHooks # {}) => (hk.asked \/ hk.pc = "select")
  /\ hk.returned =>
       /\ (hk.eligibleHooks = {} \/ HkSelected = {}) => hk.result = hk.cfg
       /\ hk.eligibleHooks = {} => (hk.notes = <<"hooks", "no-hooks">> /\ hk.toEnable = {})
       /\ (SKIP \in hk.toEnable /\ HkSelected # {}) =>
            /\ hk.result.hooks.internal.enabled
            /\ \A h \in HkSelected : hk.result.hooks.internal.entries[h] = "enabled"

\* C24 witness: the skip entry and a hook selected together, the hook enabled
C24_Witness ==
  /\ hk.returned
  /\ hk.toEnable = {SKIP, "command-logger"}
  /\ hk.cfg.hooks.internal.entries["command-logger"] = "absent"
  /\ hk.result.hooks.internal.entries["command-logger"] = "enabled"
  /\ hk.result # hk.cfg

(***************************************************************************)
(* Properties of applyOnboardingLocalWorkspaceConfig (LocalConfigSpec)     *)
(***************************************************************************)
\* a setting kept when it is there with the accepted type, else the default
KeptOrDefault(existing, accepted, default) == IF accepted THEN existing ELSE default

\* C25: the result has the given workspace and gateway.mode local; each
\* language plugin entry keeps a boolean enabled flag and gets true
\* otherwise; lang-core keeps its locale settings and gets the defaults for
\* the missing ones; every other key is the input's; applying the function
\* to its result changes nothing.
C25_LocalWorkspaceDefaults ==
  /\ lw.pc \in {"applied", "done"} =>
       LET b == lw.baseConfig
           r == lw.once
           bc == b.entries["lang-core"].config
           rc == r.entries["lang-core"].config
       IN /\ r.workspace = lw.workspaceDir
          /\ r.gatewayMode = "local"
          /\ r.rest = b.rest
          /\ \A p \in LangPlugins :
               /\ r.entries[p].present
               /\ r.entries[p].enabled =
                    KeptOrDefault(b.entries[p].enabled,
                                  b.entries[p].enabled \in {"true", "false"}, "true")
               /\ r.entries[p].rest = b.entries[p].rest
               /\ p # "lang-core" => r.entries[p].config = b.entries[p].config
          /\ rc.present
          /\ rc.defaultLocale =
               KeptOrDefault(bc.defaultLocale,
                             bc.defaultLocale \notin {"undefined", "mistyped"}, "zh-CN")
          /\ rc.currentLocale =
               KeptOrDefault(bc.currentLocale,
                             bc.currentLocale \notin {"undefined", "mistyped"}, "zh-CN")
          /\ rc.allowedLocales =
               KeptOrDefault(bc.allowedLocales,
                             bc.allowedLocales \notin {"undefined", "mistyped"},
                             "zh-CN,en-US,ja-JP")
          /\ rc.rest = bc.rest
  /\ lw.pc = "done" => lw.twice = lw.once

\* C25 witness: a disabled lang-core with a default locale of its own and no
\* current locale keeps the first two and gets the default for the third;
\* a disabled language pack stays disabled
C25_Witness ==
  /\ lw.pc = "done"
  /\ lw.baseConfig.entries["lang-core"].enabled = "false"
  /\ lw.baseConfig.entries["lang-core"].config.defaultLocale = "en-US"
  /\ lw.baseConfig.entries["lang-core"].config.currentLocale = "undefined"
  /\ lw.baseConfig.entries["lang-en-us"].enabled = "false"
  /\ lw.baseConfig.entries["lang-ja-jp"].present = FALSE
  /\ lw.once.entries["lang-core"].enabled = "false"
  /\ lw.once.entries["lang-core"].config.defaultLocale = "en-US"
  /\ lw.once.entries["lang-core"].config.currentLocale = "zh-CN"
  /\ lw.once.entries["lang-en-us"].enabled = "false"
  /\ lw.once.entries["lang-ja-jp"].enabled = "true"
  /\ lw.once # lw.baseConfig

(***************************************************************************)
(* Properties of the /lang commands (LangSpec)                             *)
(***************************************************************************)
\* C26 (as claimed): after a sequence of commands the active locale is the
\* locale of the last accepted /lang set since the last /lang reset, or the
\* default locale if there is none.
C26_ActiveIsLastSetOrDefault ==
  lg.commands > 0 =>
    resolveActiveLocale(lg.cfg) =
      (IF lg.lastAccepted # NoLocale THEN lg.lastAccepted
                                     ELSE resolveDefaultLocale(lg.cfg))

\* what a command leaves alone
LgKept ==
  /\ lg.cfg.defaultLocale = lg.start.defaultLocale
  /\ lg.cfg.allowedLocales = lg.start.allowedLocales
  /\ lg.cfg.rest = lg.start.rest

\* the active locale after the commands so far
LgActive ==
  resolveActiveLocale(lg.cfg) =
    (IF lg.lastAccepted # NoLocale THEN lg.lastAccepted
     ELSE IF lg.resetSeen THEN resolveDefaultLocale(lg.cfg)
     ELSE resolveActiveLocale(lg.start))

\* a command that is no accepted set and no reset writes nothing; a reset
\* removes currentLocale and nothing else; an accepted set stores an allowed
\* locale
LgStep ==
  lg'.commands # lg.commands =>
    /\ lg'.reply \in {"summary", "usage", "not-allowed"} =>
         (lg'.cfg = lg.cfg /\ lg'.writes = lg.writes
            /\ lg'.lastAccepted = lg.lastAccepted)
    /\ lg'.reply = "reset" =>
         /\ lg'.cfg = [lg.cfg EXCEPT !.present = TRUE, !.currentLocale = UndefinedText]
         /\ lg'.reported = resolveActiveLocale(lg'.cfg)
    /\ lg'.reply = "set" =>
         /\ lg'.cfg.currentLocale \in resolveAllowedLocales(lg.cfg)
         /\ lg'.reported = resolveActiveLocale(lg'.cfg)

\* C26 (amended): the active locale is the locale of the last accepted
\* /lang set since the last /lang reset; without one it is the default
\* locale after a reset, and the active locale of the stored configuration
\* when no reset was given. A refused set writes nothing, and a reset removes
\* currentLocale and nothing else.
C26_ActiveIsLastSetOrStored ==
  /\ [](LgKept /\ LgActive)
  /\ [][LgStep]_vars

\* C26 witness: a locale set, refused for another one, then reset to a
\* default locale that differs from the locale stored at the start
C26_Witness ==
  /\ lg.commands = 3
  /\ lg.reply = "reset"
  /\ lg.writes = 2
  /\ lg.start.currentLocale = <<"zh-CN">>
  /\ lg.start.defaultLocale = <<"en">>
  /\ resolveActiveLocale(lg.cfg) = <<"en-US">>

(***************************************************************************)
(* C27: the gateway section returned for writing satisfies the invariant   *)
(* of the returned settings: it holds a customBindHost only when the       *)
(* resulting bind is custom, and its port, bind, auth mode, token and      *)
(* tailscale mode equal those of the returned settings.                    *)
(***************************************************************************)
C27_WrittenGatewayMatchesSettings ==
  GwReturned =>
    /\ nextGateway.customBindHost # UndefinedText => gwSettings.bind = "custom"
    /\ nextGateway.port = gwSettings.port
    /\ nextGateway.bind = gwSettings.bind
    /\ nextGateway.authMode = gwSettings.authMode
    /\ nextGateway.token = gwSettings.gatewayToken
    /\ nextGateway.tsMode = gwSettings.tailscaleMode

\* C28 as stated: in quickstart flow the fixups are applied without any
\* notice, and only advanced flow shows a notice with a fixup.
C28_QuickstartFixupsSilent ==
  GwReturned =>
    /\ flow = "quickstart" =>
         (~GwNoted("tailscale-requires-loopback") /\ ~GwNoted("funnel-requires-password"))
    /\ flow = "advanced" =>
         /\ gwSettings.bind # gw.collectedBind => GwNoted("tailscale-requires-loopback")
         /\ gwSettings.authMode # gw.collectedAuthMode => GwNoted("funnel-requires-password")

\* C28, amended: in quickstart flow as in advanced flow, a run that returns
\* a bind or an auth mode other than the collected one has shown the notice
\* of that fixup, and a run that shows a notice has applied its fixup.
C28_FixupsNoticedInBothFlows ==
  \A f \in Flows :
    (GwReturned /\ flow = f) =>
      /\ gwSettings.bind # gw.collectedBind <=> GwNoted("tailscale-requires-loopback")
      /\ gwSettings.authMode # gw.collectedAuthMode <=> GwNoted("funnel-requires-password")

\* a quickstart run over a stored funnel, lan bind and token auth returns
\* loopback and password auth and has shown both notices
C28_Witness ==
  /\ GwReturned
  /\ flow = "quickstart"
  /\ gw.collectedBind = "lan"
  /\ gwSettings.bind = "loopback"
  /\ gw.collectedAuthMode = "token"
  /\ gwSettings.authMode = "password"
  /\ gwNotes = <<"tailscale-requires-loopback", "funnel-requires-password">>

(***************************************************************************)
(* Properties of the remote branch (RemoteSpec)                            *)
(***************************************************************************)
RmStepped == \E i \in DOMAIN rm.log : rm.log[i][1] = "step"

\* C31: with mode remote the run never enters the local steps; it writes
\* nothing before it ends and exactly once when it ends, a document whose
\* gateway.mode is remote and whose gateway.remote.url starts with ws:// or
\* wss://; with no auth the document holds no remote token, with token auth
\* a non-empty one; the keys outside gateway.mode, gateway.remote and the
\* wizard metadata are those of the configuration the branch started from.
C31_RemoteWritesOnce ==
  rm.mode = "remote" =>
    /\ rm.pc # "local"
    /\ ~RmStepped
    /\ rm.pc # "done" => rm.writes = <<>>
    /\ rm.pc = "done" =>
         /\ Len(rm.writes) = 1
         /\ LET doc == rm.writes[1]
            IN /\ doc.gwMode = "remote"
               /\ StartsWithWs(doc.remoteUrl)
               /\ doc.meta = "remote"
               /\ doc.rest = rm.cfg.rest
               /\ doc.gwRest = rm.cfg.gwRest
               /\ rm.authChoice = "off" => doc.remoteToken = UndefinedText
               /\ rm.authChoice = "token" => Truthy(doc.remoteToken)

\* a remote run over a stored remote token and other keys that chose no auth
C31_Witness ==
  /\ rm.pc = "done"
  /\ rm.mode = "remote"
  /\ rm.cfg.remoteToken = <<"s">>
  /\ rm.cfg.rest = "other"
  /\ rm.cfg.gwRest = "other"
  /\ rm.authChoice = "off"
  /\ Len(rm.writes) = 1
  /\ rm.writes[1].remoteToken = UndefinedText
  /\ rm.writes[1].rest = "other"

(***************************************************************************)
(* Properties of applyCustomApiConfig (ApplySpec)                          *)
(***************************************************************************)
ApRequested == <<ap.params.providerId, 1>>

\* the requested id names a provider with another, non-empty base URL
ApClash ==
  /\ ap.config.providers[ApRequested].present
  /\ ap.config.providers[ApRequested].baseUrl \notin {"", ap.params.baseUrl}

\* C35: when the requested id names a provider with a different non-empty
\* base URL, the provider is stored under that id with the smallest suffix
\* from 2 up that names no provider, the rename is reported and the existing
\* entry is as it was; otherwise the requested id is used, without a rename,
\* and an entry it already names keeps its other keys and its models. Every
\* provider other than the one stored is unchanged.
C35_NoOverwriteOfOtherEndpoint ==
  ap.pc \in {"again", "done"} =>
    LET old == ap.config.providers
        new == ap.once.config.providers
        id == ap.once.providerId
    IN /\ ApClash =>
            /\ id[1] = ap.params.providerId
            /\ id[2] >= 2
            /\ ~old[id].present
            /\ \A j \in 2..(id[2] - 1) : old[<<id[1], j>>].present
            /\ ap.once.providerIdRenamedFrom = ap.params.providerId
            /\ new[ApRequested] = old[ApRequested]
       /\ ~ApClash =>
            /\ id = ApRequested
            /\ ap.once.providerIdRenamedFrom = "undefined"
            /\ new[id].rest = old[id].rest
            /\ \A i \in DOMAIN old[id].models : new[id].models[i] = old[id].models[i]
       /\ \A other \in ProviderIds \ {id} : new[other] = old[other]
       /\ new[id].present
       /\ new[id].baseUrl = ap.params.baseUrl
       /\ HasModel(new[id].models, ap.params.modelId)

\* the id x holds another base URL and x-2 is taken: the provider is stored
\* as x-3
C35_Witness ==
  /\ ap.pc = "again"
  /\ ApClash
  /\ ap.config.providers[<<"x", 2>>].present
  /\ ap.once.providerId = <<"x", 3>>
  /\ ap.once.providerIdRenamedFrom = "x"

\* C36: applying applyCustomApiConfig with the same parameters to its own
\* result gives the same configuration and the same provider id; the model
\* list gains no duplicate and a stored API key is kept when none is supplied.
C36_ApplyIdempotent ==
  ap.pc = "done" =>
    /\ ap.twice.config = ap.once.config
    /\ ap.twice.providerId = ap.once.providerId

(***************************************************************************)
(* Properties of promptCustomApiConfig (CustomSpec)                        *)
(***************************************************************************)
CuLast == cu.requests[Len(cu.requests)]

\* the last request was sent with the values in hand
CuLastIsCurrent ==
  /\ Len(cu.requests) > 0
  /\ CuLast.baseUrl = cu.baseUrl
  /\ CuLast.apiKey = cu.apiKey
  /\ CuLast.modelId = cu.modelId

CuRetryPrompts ==
  Cardinality({ i \in DOMAIN cu.log : cu.log[i] = <<"prompt", "retry">> })

\* C33: the loop is left only after a request sent with the base URL, API
\* key and model id in hand was ok, and that request is the only ok one; a
\* failed round leads to the retry prompt, each retry prompt answered starts
\* one more round, and the provider written carries the verified values; as
\* long as nothing is applied the configuration is the one passed in.
C33_AppliedOnlyAfterVerified ==
  /\ cu.pc \in {"endpointId", "done"} => (CuLastIsCurrent /\ CuLast.ok)
  /\ cu.pc = "retry" => (CuLastIsCurrent /\ ~CuLast.ok)
  /\ \A i \in DOMAIN cu.requests : cu.requests[i].ok => i = Len(cu.requests)
  /\ cu.pc \in {"loop", "retry", "endpointId", "done"} => CuRetryPrompts = cu.round
  /\ cu.pc = "loop" => \A i \in DOMAIN cu.requests : cu.requests[i].round < cu.round
  /\ cu.applied <=> cu.pc = "done"
  /\ ~cu.applied => cu.result.config = cu.config
  /\ cu.applied =>
       LET provider == cu.result.config.providers[cu.result.providerId]
       IN /\ provider.present
          /\ provider.baseUrl = CuLast.baseUrl
          /\ cu.result.modelId = CuLast.modelId
          /\ HasModel(provider.models, CuLast.modelId)
          /\ HasKey(CuLast.apiKey) => provider.apiKey = CuLast.apiKey

\* a provider applied after a failed round and a change of the base URL
C33_Witness ==
  /\ cu.pc = "done"
  /\ cu.applied
  /\ cu.round >= 1
  /\ ~cu.requests[1].ok
  /\ cu.requests[1].baseUrl # cu.baseUrl
  /\ CuLast.ok
  /\ cu.result.config.providers[cu.result.providerId].baseUrl = cu.baseUrl

\* C34: with unknown compatibility every round sends the OpenAI-style
\* request first and the Anthropic-style request only after the OpenAI-style
\* request of the same round, with the same values, was not ok; the
\* compatibility applied is the style of the request that was ok. A chosen
\* compatibility is the style of every request and the one applied.
C34_DetectionOrder ==
  /\ cu.compatibilityChoice = "unknown" =>
       /\ \A i \in DOMAIN cu.requests :
            LET r == cu.requests[i]
            IN /\ r.kind = "anthropic" =>
                    /\ i > 1
                    /\ cu.requests[i - 1] = [r EXCEPT !.kind = "openai", !.ok = FALSE]
               /\ r.kind = "openai" => (i = 1 \/ cu.requests[i - 1].round < r.round)
       /\ cu.applied =>
            /\ cu.appliedCompatibility = CuLast.kind
            /\ cu.result.config.providers[cu.result.providerId].api =
                 resolveProviderApi(CuLast.kind)
  /\ cu.compatibilityChoice \in {"openai", "anthropic"} =>
       /\ cu.compatibility = cu.compatibilityChoice
       /\ \A i \in DOMAIN cu.requests : cu.requests[i].kind = cu.compatibilityChoice
       /\ cu.applied => cu.appliedCompatibility = cu.compatibilityChoice

\* unknown compatibility, a failed round, then a round in which only the
\* Anthropic-style request was ok
C34_Witness ==
  /\ cu.pc = "done"
  /\ cu.compatibilityChoice = "unknown"
  /\ cu.round >= 1
  /\ Len(cu.requests) = 4
  /\ CuLast.kind = "anthropic"
  /\ cu.appliedCompatibility = "anthropic"

(***************************************************************************)
(* Properties of the progress indicators (ProgressSpec)                    *)
(***************************************************************************)
\* C37: every progress indicator started is stopped, once, before anything
\* else happens: before the next prompt or note, before the function returns
\* and before a raise leaves it.
C37_ProgressStoppedOnce ==
  \A i \in DOMAIN pg.log :
    pg.log[i][1] = "progress" =>
      /\ i < Len(pg.log)
      /\ pg.log[i + 1] = <<"stop", pg.log[i][2]>>
      /\ (i + 2 <= Len(pg.log) => pg.log[i + 2][1] # "stop")

(***************************************************************************)
(* Properties of runOnboardingWizard (Spec)                                *)
(***************************************************************************)
WzLogSet == {wzLog[i] : i \in DOMAIN wzLog}

\* the run was ended by the cancellation signal of the prompting collaborator
WzCancelledByPrompt == wz.pc = "cancelled" /\ wz.cancelledAt # "riskDeclined"

\* the prompts that come before the first writeConfigFile of a local run
PromptsBeforeFirstWrite ==
  {"risk", "flow", "config-handling", "reset-scope", "mode", "remote", "workspace",
   "auth", "gateway", "channels"}

\* C5 (as claimed): after a cancellation at any prompt the persisted document
\* is the one that was persisted when the run started.
C5_CancelLeavesStartDocument ==
  WzCancelledByPrompt => (persisted = StartDoc(snapshot) /\ wzWrites = <<>>)

\* C5 (amended): after a cancellation nothing follows the cancelled prompt, so
\* no write happens afterwards; the persisted document is the one of the
\* start of the run when the cancellation comes before the first
\* writeConfigFile and no reset was done, is removed when a reset was done
\* before, and is the last document written when the cancellation comes
\* during skill or hook setup or later.
C5_CancelStopsBeforeNextWrite ==
  WzCancelledByPrompt =>
    /\ wzLog[Len(wzLog)] = <<"prompt", wz.cancelledAt>>
    /\ (wz.cancelledAt \in PromptsBeforeFirstWrite =>
          /\ wzWrites = <<>>
          /\ persisted = IF wz.resetDone THEN NoDoc ELSE StartDoc(snapshot))
    /\ (wz.cancelledAt \in {"skills", "hooks"} =>
          /\ Len(wzWrites) = 1
          /\ persisted = wzWrites[1]
          /\ persisted.meta = "none")
    /\ (wz.cancelledAt \in {"finalize", "hatch"} =>
          /\ Len(wzWrites) = 2
          /\ persisted = wzWrites[2])

\* C5 witness: a run cancelled at the hooks prompt, after the first write
\* replaced the document of the start of the run.
C5_Witness ==
  /\ WzCancelledByPrompt
  /\ wz.cancelledAt = "hooks"
  /\ Len(wzWrites) = 1
  /\ persisted # StartDoc(snapshot)

\* C7: once the mode of the run is remote the flow is advanced, and when the
\* flow was switched from quickstart the note explaining it is in the log
\* with nothing before it but the risk acknowledgement and the flow prompt.
C7_RemoteForcesAdvanced ==
  wz.mode = "remote" =>
    /\ flow = "advanced"
    /\ (wz.chosenFlow = "quickstart" =>
          \E i \in DOMAIN wzLog :
            /\ wzLog[i] = <<"note", "quickstart-remote">>
            /\ \A j \in 1..(i - 1) :
                 wzLog[j] \in { <<"note", "security">>, <<"prompt", "risk">>,
                                <<"prompt", "flow">> })

\* C7 witness: a remote run finished after the operator answered quickstart at
\* the flow prompt.
C7_Witness ==
  /\ wz.pc = "done"
  /\ wz.mode = "remote"
  /\ wz.chosenFlow = "quickstart"
  /\ <<"prompt", "flow">> \in WzLogSet
  /\ Len(wzWrites) = 1

\* the consequences of a rejected explicit flow
WzFlowRejected ==
  /\ wz.pc = "exited"
  /\ wz.exitCode = "1"
  /\ <<"error", "invalid-flow">> \in WzLogSet
  /\ <<"prompt", "flow">> \notin WzLogSet
  /\ flow = "undefined"
  /\ wzWrites = <<>>

\* manual is taken as advanced, without the flow prompt
WzManualIsAdvanced ==
  (wz.flowChecked /\ ExplicitFlowRaw(opts.flow) = <<"manual">>)
    => (wz.chosenFlow = "advanced" /\ <<"prompt", "flow">> \notin WzLogSet)

\* C8 (as claimed): once the flow has been decided, every explicit flow that
\* after trimming is not quickstart, advanced or manual has been rejected.
C8_InvalidFlowRejected ==
  /\ (wz.flowChecked /\ opts.flow # UndefinedText
        /\ ExplicitFlowRaw(opts.flow) \notin {<<"quickstart">>, <<"advanced">>, <<"manual">>})
       => WzFlowRejected
  /\ WzManualIsAdvanced

\* C8 (amended): once the flow has been decided, every explicit flow that
\* after trimming is non-empty and not quickstart, advanced or manual has
\* been rejected; manual is taken as advanced.
C8_NonEmptyInvalidFlowRejected ==
  /\ (wz.flowChecked /\ opts.flow # UndefinedText
        /\ ExplicitFlowRaw(opts.flow) # <<>>
        /\ ExplicitFlowRaw(opts.flow) \notin {<<"quickstart">>, <<"advanced">>, <<"manual">>})
       => WzFlowRejected
  /\ WzManualIsAdvanced

\* C8 witness: a run rejected for an explicit flow that is no accepted word.
C8_Witness ==
  /\ WzFlowRejected
  /\ opts.flow = <<"quick", " ", "start">>
  /\ ~opts.acceptRisk

\* the positions of the run that follow the first probes
WzAfterProbe ==
  {"mode", "remoteConfig", "remoteWrite", "workspace", "auth", "gateway", "channels",
   "write1", "skills", "hooks", "write2", "finalize", "waitReachable", "health",
   "finalProbe", "hatch", "outro"}

\* a step that goes on with the run
WzGoesOn == Next /\ wz'.pc \notin {"cancelled", "exited"}

\* C21: a failed probe never ends the run. Once a probe has failed the run
\* is never ended with an exit code, a cancellation is the prompting
\* collaborator's, the run always has a step that goes on, and when it is
\* done the configuration has been written, the outro shown, and the failure
\* of the health check and of the final probe is in the notes.
C21_ProbeFailureNeverStops ==
  /\ wz.probeFailed => wz.pc # "exited"
  /\ (wz.probeFailed /\ wz.pc = "cancelled") =>
       wzLog[Len(wzLog)] = <<"prompt", wz.cancelledAt>>
  /\ wz.pc \in WzAfterProbe => ENABLED WzGoesOn
  /\ (wz.probeFailed /\ wz.pc = "done") =>
       /\ wzWrites # <<>>
       /\ persisted = wzWrites[Len(wzWrites)]
       /\ wzLog[Len(wzLog)][1] = "outro"
  /\ <<"error", "health">> \in WzLogSet =>
       (<<"note", "health-help">> \in WzLogSet /\ wz.probeFailed)
  /\ <<"note", "gateway-not-detected">> \in WzLogSet =>
       (wz.probeFailed /\ <<"prompt", "hatch">> \notin WzLogSet)

\* C21 witness: a local run done after the first probe, the health check and
\* the final probe failed
C21_Witness ==
  /\ wz.pc = "done"
  /\ wz.mode = "local"
  /\ ~wz.localProbeOk
  /\ wz.probeFailed
  /\ <<"error", "health">> \in WzLogSet
  /\ <<"note", "gateway-not-detected">> \in WzLogSet
  /\ Len(wzWrites) = 2
  /\ wzLog[Len(wzLog)] = <<"outro", "complete">>

\* the run has done nothing to the configuration: nothing read, nothing
\* reset, nothing written, the persisted document as it was found
WzUntouched ==
  /\ wz.baseConfig = EmptyConfig
  /\ ~wz.resetDone
  /\ wzWrites = <<>>
  /\ persisted = StartDoc(snapshot)

WzRiskLog == << <<"note", "security">>, <<"prompt", "risk">> >>

\* C29: unless opts.acceptRisk is true, the run reads no configuration,
\* resets nothing and writes nothing before the risk confirmation: while the
\* run stands at the acknowledgement nothing is touched, every later state
\* has the risk note and confirmation first in its log, and a run whose
\* operator declined is cancelled with the document and workspace untouched
\* and nothing else shown.
C29_NothingBeforeRiskConfirmed ==
  ~opts.acceptRisk =>
    /\ wz.pc = "risk" => (WzUntouched /\ wzLog = <<>>)
    /\ wz.pc # "risk" => (Len(wzLog) >= 2 /\ SubSeq(wzLog, 1, 2) = WzRiskLog)
    /\ wz.cancelledAt \in {"risk", "riskDeclined"} =>
         /\ wz.pc = "cancelled"
         /\ WzUntouched
         /\ wzLog = WzRiskLog

\* a run over a stored file whose operator declined the risk confirmation
C29_Witness ==
  /\ ~opts.acceptRisk
  /\ snapshot.exists
  /\ wz.pc = "cancelled"
  /\ wz.cancelledAt = "riskDeclined"
  /\ persisted = StoredDoc
  /\ wzWrites = <<>>

\* C30: over a file that exists but is invalid the run ends at the snapshot
\* with exit code 1 after the invalid-config note and outro; it issues no
\* prompt other than the risk confirmation, never resets and never writes,
\* and the file stays as found.
C30_InvalidConfigExits ==
  (snapshot.exists /\ ~snapshot.valid) =>
    /\ WzUntouched
    /\ wz.pc \in {"risk", "snapshot", "cancelled", "exited"}
    /\ \A i \in DOMAIN wzLog :
         /\ wzLog[i][1] = "prompt" => wzLog[i][2] = "risk"
         /\ wzLog[i][1] # "write"
    /\ wz.pc = "cancelled" => wz.cancelledAt \in {"risk", "riskDeclined"}
    /\ wz.pc = "exited" =>
         /\ wz.exitCode = "1"
         /\ Len(wzLog) >= 2
         /\ SubSeq(wzLog, Len(wzLog) - 1, Len(wzLog)) =
              << <<"note", "invalid-config">>, <<"outro", "invalid-config">> >>

\* a run over an invalid file that has exited with code 1
C30_Witness ==
  /\ snapshot.exists
  /\ ~snapshot.valid
  /\ wz.pc = "exited"
  /\ wz.exitCode = "1"
  /\ persisted = StoredDoc
  /\ wzWrites = <<>>

(***************************************************************************)
(* Properties of the language packs at prompt build (LangSpec)             *)
(***************************************************************************)
\* C38: when a prompt is built a language pack prepends its context exactly
\* when lang-core's active locale (aliases normalised, default locale as the
\* fallback) is the pack's locale, and at most one pack prepends.
C38_PacksAgreeWithLangCore ==
  lg.prompt.built =>
    /\ \A pack \in DOMAIN PackLocale :
         pack \in lg.prompt.packs <=>
           (Len(lg.prompt.active) = 1
              /\ ToLowerCase(lg.prompt.active[1]) = PackLocale[pack])
    /\ Cardinality(lg.prompt.packs) <= 1

====
